---- MODULE Spec2Model ----
(***************************************************************************)
(* A model of the nvelox layer-4 proxy: the load balancer strategies of    *)
(* lb/lb.go, the health checker of core/health, the TCP connection handler *)
(* and the UDP session layer of core/handler.go, the listener table and    *)
(* its lookup, the PROXY v2 encoder of proxy/proxy_protocol.go, and the    *)
(* start-up of main.go and Engine.Start.  Each subsystem has its own       *)
(* specification over the shared variables: SpecLB, SpecNext (Next called  *)
(* by concurrent goroutines), SpecHealth, SpecTCP (SpecTCPFair with the    *)
(* event loop's fairness, SpecTCPLive with the goroutines' as well),       *)
(* SpecUDP (SpecUDPSession on pools of one server), SpecMux, SpecEncoder,  *)
(* SpecProxyHeader (the encoder on a buffer and inside handleUDP),         *)
(* SpecExpand (the expansion of bind strings) and SpecRun (the process:    *)
(* expansion, engine start, signal and exit).                              *)
(***************************************************************************)
EXTENDS Integers, Sequences, FiniteSets, TLC

\* ------------------------------------------------------------------ bounds
MaxServers == 3      \* longest configured server list
MaxCalls == 4        \* calls to RoundRobin.Next in one behaviour
MaxInflight == 1     \* largest magnitude of a least-connections counter
MaxRecv == 2         \* bytes a client sends on one TCP connection
MaxReads == 2        \* chunks read from the backend of one TCP connection
MaxDatagrams == 3    \* datagrams received on the UDP listener
MaxListeners == 2    \* listeners of one configuration
MaxRounds == 2       \* ticks of one health checker
MaxBindLen == 5      \* characters of a listener's bind string

\* ------------------------------------------------------------- identities
Names == {"s1", "s2", "s3"}
BalanceTags == {"roundrobin", "random", "leastconn", "other"}
NoServer == ""
Conns == {"c1"}                \* the gnet.Conn objects of accepted TCP connections
NilCtx == "nil"
Workers == {"w1", "w2"}        \* event-loop workers delivering datagram events
Goroutines == {"g1", "g2"}     \* goroutines that call Balancer.Next concurrently
Clients == {"k1"}              \* client addresses, c.RemoteAddr().String()
NoConn == 0

VARIABLES
    balance,        \* config.Backend.Balance, the configured tag
    allServers,     \* lb: allServers, the immutable configuration
    status,         \* lb: status map[string]bool
    healthy,        \* lb: healthy, the derived active list
    current,        \* RoundRobin.current
    conns,          \* LeastConn.conns map[string]int64
    lbLast,         \* the last balancer call and what it returned
    nextCalls,      \* number of Next calls made on a round-robin balancer
    statusTouched,  \* TRUE once UpdateStatus has been called
    lDefaultBackend,\* ListenerConfig.DefaultBackend of the listener: "" or a pool name
    lAddr,          \* the listener's address as c.LocalAddr() reports it; its Port
                    \* is ListenerConfig.Port
    cState,         \* gnet.Conn: "new" (not accepted yet), "open" or "released"
    cCtx,           \* gnet.Conn.Context(): the attached *ConnContext or nil
    ctx,            \* ConnContext: BackendConn, buffer (bufferNil once it was set to
                    \* nil), connected, closed
    dial,           \* the connectBackend goroutine: position, target (the server
                    \* picked), addr (the address dialed), chunks read, and its
                    \* history: calls to Next (sel) and to DialTimeout (dials),
                    \* failed once either returned an error
    sock,           \* rc, the dialed backend socket: state, server, bytes written
    asyncQ,         \* callbacks handed to c.AsyncWrite, in order
    closeReq,       \* TRUE while a c.Close() task is queued on the event loop
    received,       \* bytes the handler took from the client with c.Next(-1)
    clientLog,      \* what each write callback did: wrote to the client or dropped
    sendProxyV2,    \* config.Backend.SendProxyV2 of the pool
    udpSessions,    \* ProxyEventHandler.udpSessions: remoteAddr -> backend socket
    usock,          \* the sockets made by net.DialUDP, each with its reader goroutine
    uw,             \* handleUDP running on each worker: position and locals
    dgramCount,     \* datagrams received so far
    udpLast,        \* the last write of the UDP layer or the last datagram it dropped
    listeners,      \* Engine.Listeners, in configuration order
    listenerMap,    \* ProxyEventHandler.listenerMap: Addr -> *ListenerConfig
    muxLast,        \* the last event dispatched by OnOpen/OnTraffic and its outcome
    pxSrc,          \* WriteProxyHeaderV2: the src argument
    pxDst,          \* WriteProxyHeaderV2: the dst argument
    pxOut,          \* WriteProxyHeaderV2: the error returned and the bytes written to w
    chkStatus,      \* health.Checker.status: server -> is_healthy, empty at first
    probes,         \* the probe goroutines of the current checkAll round, per server
    hcMu,           \* health.Checker.mu: the server whose updateStatus holds it, or ""
    hcRounds,       \* ticks of the checker's loop so far
    cfgListeners,   \* config.Config.Listeners as loaded
    cfgPos,         \* run: listeners of the configuration already expanded
    unbindable,     \* the addresses the OS refuses to bind
    engState,       \* Engine.Start: "new", "running" (inside gnet.Rotate) or "failed"
    ctxDone,        \* TRUE once the context of main is cancelled (SIGINT/SIGTERM)
    errCh,          \* run's errCh: "empty" or "err"
    runRet,         \* what run returned: "none" (still running), "nil" or "error"
    exited,         \* TRUE once the process has exited
    nx,             \* the goroutines calling Balancer.Next: where each one is in
                    \* the call, the counter value it got, the healthy list it saw
    nxLog           \* the results of the Next calls that have returned

lbVars == <<balance, allServers, status, healthy, current, conns>>
lbHist == <<lbLast, nextCalls, statusTouched>>
tcpVars == <<lDefaultBackend, lAddr, cState, cCtx, ctx, dial, sock, asyncQ, closeReq>>
tcpHist == <<received, clientLog>>
udpVars == <<sendProxyV2, udpSessions, usock, uw>>
udpHist == <<dgramCount, udpLast>>
muxVars == <<listeners, listenerMap, muxLast>>
pxVars == <<pxSrc, pxDst, pxOut>>
hcVars == <<chkStatus, probes, hcMu, hcRounds>>
\* what the balancer, the data path and the encoder never touch
procVars == <<unbindable, engState, ctxDone, errCh, runRet, exited>>
runVars == <<cfgListeners, cfgPos, procVars>>
nxVars == <<nx, nxLog>>
extVars == <<hcVars, runVars, nxVars>>

\* ------------------------------------------------------------ addresses
\* a net.IP is a slice of 4 or of 16 bytes
Zeros(n) == [i \in 1..n |-> 0]
IPv4Loopback == <<127, 0, 0, 1>>
IPv4Any == <<0, 0, 0, 0>>
IPv4Client == <<10, 1, 2, 3>>
IPv6Loopback == Zeros(15) \o <<1>>
IPv6Any == Zeros(16)
\* the 16-byte form of an IPv4 address, ::ffff:a.b.c.d
V4InV6(ip) == Zeros(10) \o <<255, 255>> \o ip
\* the listener of the single-listener specifications: one port of a range
ListenPort == 3001
ListenPorts == {3000, ListenPort}
\* what net.SplitHostPort finds in a pool entry: "s1" and "s2" are written
\* host:port, "s3" is a bare host, for which it returns an error
NoPort == 0
ServerPort(server) ==
    CASE server = "s1" -> 9001
      [] server = "s2" -> 9002
      [] OTHER -> NoPort
NoDial == [host |-> NoServer, port |-> NoPort]
\* the address connectBackend dials: the listener's port is appended to a
\* pool entry without a port
DialTarget_NoAppend(target, port) == [host |-> target, port |-> ServerPort(target)]

DialTarget(target, port) ==
    IF ServerPort(target) = NoPort
    THEN [host |-> target, port |-> port]
    ELSE [host |-> target, port |-> ServerPort(target)]
\* getListenerConfig returning nil
NoListener == [Name |-> <<>>, Addr |-> [host |-> <<>>, port |-> 0], Protocol |-> "none",
               DefaultBackend |-> "", Port |-> 0]
NoAddr == [net |-> "none", IP |-> <<>>, Port |-> 0]

\* ---------------------------------------------------------------- helpers
Range(s) == {s[i] : i \in 1..Len(s)}

\* a Go map read: the zero value when the key is missing
MapGetBool(m, k) == IF k \in DOMAIN m THEN m[k] ELSE FALSE
MapGetInt(m, k) == IF k \in DOMAIN m THEN m[k] ELSE 0
MapPut(m, k, v) == [x \in (DOMAIN m) \cup {k} |-> IF x = k THEN v ELSE m[x]]

SeqsUpTo(S, n) == UNION {[1..k -> S] : k \in 0..n}

\* ------------------------------------------------------------ lb/lb.go
\* NewBalancer: the implementation chosen for a configured tag
NewBalancer(tag) ==
    CASE tag = "roundrobin" -> "roundrobin"
      [] tag = "leastconn" -> "leastconn"
      [] tag = "random" -> "random"
      [] OTHER -> "roundrobin"

Strategy == NewBalancer(balance)

\* NewRoundRobin / NewRandom / NewLeastConn: every configured server is UP
NewStatus(servers) == [s \in Range(servers) |-> TRUE]
NewConns(servers) == [s \in Range(servers) |-> 0]

\* the rebuild loop of UpdateStatus: filter all[i..] by st, in order
RECURSIVE RebuildFrom(_, _, _, _)
RebuildFrom(all, st, i, active) ==
    IF i > Len(all) THEN active
    ELSE RebuildFrom(all, st, i + 1,
                     IF MapGetBool(st, all[i]) THEN Append(active, all[i]) ELSE active)

Rebuild_OntoOld(all, st) == RebuildFrom(all, st, 1, healthy)

Rebuild(all, st) == RebuildFrom(all, st, 1, <<>>)

\* The outcome of a Next call: the server, the error flag, the index used
\* and the new value of the round-robin counter.
Outcome(srv, err, idx, cur) == [server |-> srv, err |-> err, idx |-> idx, cur |-> cur]

RoundRobin_Next_SkipFirst ==
    IF Len(healthy) = 0
    THEN {Outcome(NoServer, TRUE, 0, current)}
    ELSE {Outcome(healthy[((current + 1) % Len(healthy)) + 1], FALSE,
                  (current + 1) % Len(healthy), current + 1)}

\* RoundRobin.Next: next := current+1; idx := (next-1) % len(healthy)
RoundRobin_Next ==
    IF Len(healthy) = 0
    THEN {Outcome(NoServer, TRUE, 0, current)}
    ELSE LET next == current + 1
             idx == (next - 1) % Len(healthy)
         IN {Outcome(healthy[idx + 1], FALSE, idx, next)}

Random_Next_FallBackToAll ==
    IF Len(healthy) = 0
    THEN IF Len(allServers) = 0
         THEN {Outcome(NoServer, TRUE, 0, current)}
         ELSE {Outcome(allServers[i + 1], FALSE, i, current) : i \in 0..(Len(allServers) - 1)}
    ELSE {Outcome(healthy[i + 1], FALSE, i, current) : i \in 0..(Len(healthy) - 1)}

\* Random.Next: rnd.Intn(len(healthy)) is any index of the healthy list
Random_Next ==
    IF Len(healthy) = 0
    THEN {Outcome(NoServer, TRUE, 0, current)}
    ELSE {Outcome(healthy[i + 1], FALSE, i, current) : i \in 0..(Len(healthy) - 1)}

\* the scan of LeastConn.Next over healthy[i..] with the best so far
RECURSIVE LeastConnScan(_, _, _, _)
LeastConnScan(h, i, best, min) ==
    IF i > Len(h) THEN best
    ELSE LET c == MapGetInt(conns, h[i])
         IN IF c < min THEN LeastConnScan(h, i + 1, i, c)
            ELSE LeastConnScan(h, i + 1, best, min)

LeastConn_Next_LastWins ==
    IF Len(healthy) = 0
    THEN {Outcome(NoServer, TRUE, 0, current)}
    ELSE LET m == CHOOSE v \in {MapGetInt(conns, healthy[i]) : i \in 1..Len(healthy)} :
                     \A j \in 1..Len(healthy) : v <= MapGetInt(conns, healthy[j])
             b == CHOOSE i \in 1..Len(healthy) :
                     /\ MapGetInt(conns, healthy[i]) = m
                     /\ \A j \in (i + 1)..Len(healthy) : MapGetInt(conns, healthy[j]) # m
         IN {Outcome(healthy[b], FALSE, b - 1, current)}

\* LeastConn.Next: the first healthy server with the smallest counter
LeastConn_Next ==
    IF Len(healthy) = 0
    THEN {Outcome(NoServer, TRUE, 0, current)}
    ELSE LET b == LeastConnScan(healthy, 2, 1, MapGetInt(conns, healthy[1]))
         IN {Outcome(healthy[b], FALSE, b - 1, current)}

\* Balancer.Next through the interface
Balancer_Next ==
    CASE Strategy = "roundrobin" -> RoundRobin_Next
      [] Strategy = "random" -> Random_Next
      [] OTHER -> LeastConn_Next

\* ------------------------------------------------- balancer operations
\* the record of a call that returns nothing
Other(op) == [op |-> op, server |-> NoServer, err |-> FALSE, idx |-> 0]

\* a worker that is not inside handleUDP
IdleWorker == [pc |-> "idle", client |-> "", conn |-> NoConn, live |-> {}]

NoWrite == [op |-> "none", sock |-> NoConn, sockOpen |-> FALSE, stillLive |-> {}]

\* the UDP layer before any datagram is received
IdleUDP ==
    /\ sendProxyV2 = FALSE
    /\ udpSessions = [k \in Clients |-> NoConn]
    /\ usock = <<>>
    /\ uw = [w \in Workers |-> IdleWorker]
    /\ dgramCount = 0
    /\ udpLast = NoWrite

\* no listener table and no event yet
IdleMux ==
    /\ listeners = <<>>
    /\ listenerMap = <<>>
    /\ muxLast = [kind |-> "new", net |-> "none", IP |-> <<>>, Port |-> 0,
                  l |-> NoListener, action |-> "None", handler |-> "none"]

\* the encoder before it is called
IdleEncoder ==
    /\ pxSrc = NoAddr
    /\ pxDst = NoAddr
    /\ pxOut = [called |-> FALSE, err |-> FALSE, written |-> <<>>]

\* a probe goroutine that does not exist
NoProbe == [pc |-> "none", healthy |-> FALSE, exists |-> FALSE, old |-> FALSE, cb |-> 0]

\* no health checker was started
IdleHealth_ProbesAtStart ==
    /\ chkStatus = <<>>
    /\ probes = [s \in Names |-> [NoProbe EXCEPT !.pc = "probe"]]
    /\ hcMu = NoServer
    /\ hcRounds = 0

IdleHealth ==
    /\ chkStatus = <<>>
    /\ probes = [s \in Names |-> NoProbe]
    /\ hcMu = NoServer
    /\ hcRounds = 0

\* the process before run starts the engine
IdleProc ==
    /\ unbindable = {}
    /\ engState = "new"
    /\ ctxDone = FALSE
    /\ errCh = "empty"
    /\ runRet = "none"
    /\ exited = FALSE

\* run has loaded no configuration
IdleRun ==
    /\ cfgListeners = <<>>
    /\ cfgPos = 0
    /\ IdleProc

\* a goroutine that is not inside Next
IdleCaller == [pc |-> "idle", next |-> 0, seen |-> <<>>]

\* no goroutine is inside Next
IdleNx ==
    /\ nx = [g \in Goroutines |-> IdleCaller]
    /\ nxLog = {}

IdleExt == IdleHealth /\ IdleRun /\ IdleNx

\* the TCP handler before any connection is accepted
IdleTCP ==
    /\ cState = [c \in Conns |-> "new"]
    /\ cCtx = [c \in Conns |-> NilCtx]
    /\ ctx = [c \in Conns |-> [BackendConn |-> "nil", buffer |-> <<>>, bufferNil |-> FALSE,
                                connected |-> FALSE, closed |-> FALSE]]
    /\ dial = [c \in Conns |-> [pc |-> "none", target |-> NoServer, addr |-> NoDial,
                                 reads |-> 0, sel |-> 0, dials |-> 0, failed |-> FALSE]]
    /\ sock = [c \in Conns |-> [state |-> "none", written |-> <<>>]]
    /\ asyncQ = [c \in Conns |-> <<>>]
    /\ closeReq = [c \in Conns |-> FALSE]
    /\ received = [c \in Conns |-> <<>>]
    /\ clientLog = [c \in Conns |-> <<>>]

InitLB ==
    /\ lDefaultBackend = "b1"
    /\ lAddr = [IP |-> IPv4Loopback, Port |-> ListenPort]
    /\ IdleTCP
    /\ IdleUDP
    /\ IdleMux
    /\ IdleEncoder
    /\ IdleExt
    /\ balance \in BalanceTags
    /\ allServers \in SeqsUpTo(Names, MaxServers)
    /\ status = NewStatus(allServers)
    /\ healthy = allServers
    /\ current = 0
    /\ conns = IF Strategy = "leastconn" THEN NewConns(allServers) ELSE <<>>
    /\ lbLast = Other("new")
    /\ nextCalls = 0
    /\ statusTouched = FALSE

NextCall(o, n) ==
    /\ current' = o.cur
    /\ lbLast' = [op |-> "next", server |-> o.server, err |-> o.err, idx |-> o.idx]
    /\ nextCalls' = n
    /\ UNCHANGED <<balance, allServers, status, healthy, conns, statusTouched>>
    /\ UNCHANGED <<tcpVars, tcpHist, udpVars, udpHist, muxVars, pxVars, extVars>>

RoundRobinNext ==
    /\ Strategy = "roundrobin"
    /\ nextCalls < MaxCalls
    /\ \E o \in RoundRobin_Next : NextCall(o, nextCalls + 1)

\* Random and LeastConn keep no counter: their calls need no bound
RandomNext ==
    /\ Strategy = "random"
    /\ \E o \in Random_Next : NextCall(o, nextCalls)

LeastConnNext ==
    /\ Strategy = "leastconn"
    /\ \E o \in LeastConn_Next : NextCall(o, nextCalls)

UpdateStatus_NoRebuild(server, h) ==
    /\ status' = MapPut(status, server, h)
    /\ healthy' = healthy

\* RoundRobin/Random/LeastConn.UpdateStatus: the three bodies are the same
UpdateStatus(server, h) ==
    /\ status' = MapPut(status, server, h)
    /\ healthy' = Rebuild(allServers, status')

\* the record of an UpdateStatus call: its arguments, and whether the call
\* before it was the same one
Updated(server, h) ==
    [op |-> "update", server |-> server, up |-> h,
     again |-> lbLast.op = "update" /\ lbLast.server = server /\ lbLast.up = h]

UpdateStatusCall_ResetsCounter ==
    \E server \in Names, h \in BOOLEAN :
        /\ UpdateStatus(server, h)
        /\ lbLast' = Updated(server, h)
        /\ statusTouched' = TRUE
        /\ current' = 0
        /\ UNCHANGED <<balance, allServers, conns, nextCalls>>
        /\ UNCHANGED <<tcpVars, tcpHist, udpVars, udpHist, muxVars, pxVars, extVars>>

UpdateStatusCall ==
    \E server \in Names, h \in BOOLEAN :
        /\ UpdateStatus(server, h)
        /\ lbLast' = Updated(server, h)
        /\ statusTouched' = TRUE
        /\ UNCHANGED <<balance, allServers, current, conns, nextCalls>>
        /\ UNCHANGED <<tcpVars, tcpHist, udpVars, udpHist, muxVars, pxVars, extVars>>

\* LeastConn.OnConnect; a no-op for the other strategies
OnConnect(server) ==
    conns' = IF Strategy = "leastconn"
             THEN MapPut(conns, server, MapGetInt(conns, server) + 1)
             ELSE conns

\* LeastConn.OnDisconnect; a no-op for the other strategies
OnDisconnect(server) ==
    conns' = IF Strategy = "leastconn"
             THEN MapPut(conns, server, MapGetInt(conns, server) - 1)
             ELSE conns

\* the notifications name a server that Next handed out, one of the pool
OnConnectCall ==
    \E server \in Range(allServers) :
        /\ MapGetInt(conns, server) < MaxInflight
        /\ OnConnect(server)
        /\ lbLast' = Other("connect")
        /\ UNCHANGED <<balance, allServers, status, healthy, current, nextCalls, statusTouched>>
        /\ UNCHANGED <<tcpVars, tcpHist, udpVars, udpHist, muxVars, pxVars, extVars>>

OnDisconnectCall ==
    \E server \in Range(allServers) :
        /\ MapGetInt(conns, server) > -MaxInflight
        /\ OnDisconnect(server)
        /\ lbLast' = Other("disconnect")
        /\ UNCHANGED <<balance, allServers, status, healthy, current, nextCalls, statusTouched>>
        /\ UNCHANGED <<tcpVars, tcpHist, udpVars, udpHist, muxVars, pxVars, extVars>>

vars == <<lbVars, lbHist, tcpVars, tcpHist, udpVars, udpHist, muxVars, pxVars, extVars>>

NextLB ==
    \/ RoundRobinNext
    \/ RandomNext
    \/ LeastConnNext
    \/ UpdateStatusCall
    \/ OnConnectCall
    \/ OnDisconnectCall

SpecLB == InitLB /\ [][NextLB]_vars

\* ------------------------------- lb/lb.go, Next called concurrently
\* what a Next call never touches
NxFrame == UNCHANGED <<tcpVars, tcpHist, udpVars, udpHist, muxVars, pxVars, hcVars, runVars>>

\* the record of a Next call that has returned: the counter value and the
\* index it used, what it returned, whether it panicked, and whether the
\* healthy list was the one it saw when it took the read lock
Returned(g, next, idx, server, err, panic) ==
    [next |-> next, idx |-> idx, server |-> server, err |-> err,
     panic |-> panic, stable |-> healthy = nx[g].seen]

\* the end of a call: the deferred RUnlock
NxReturn(g, r) ==
    /\ nxLog' = nxLog \cup {r}
    /\ nx' = [nx EXCEPT ![g] = IdleCaller]

\* b.mu.RLock(): taken while no writer holds the lock; writers are single
\* steps here, so the lock is free of them between steps
NxRLock(g) ==
    /\ nx[g].pc = "idle"
    /\ nextCalls < MaxCalls
    /\ nextCalls' = nextCalls + 1
    /\ nx' = [nx EXCEPT ![g] = [pc |-> "locked", next |-> 0, seen |-> healthy]]
    /\ UNCHANGED <<lbVars, lbLast, statusTouched, nxLog>>
    /\ NxFrame

\* RoundRobin.Next: the length check and atomic.AddUint64(&b.current, 1)
NxRoundRobinAdd(g) ==
    /\ Strategy = "roundrobin"
    /\ nx[g].pc = "locked"
    /\ IF Len(healthy) = 0
       THEN /\ NxReturn(g, Returned(g, 0, 0, NoServer, TRUE, FALSE))
            /\ UNCHANGED current
       ELSE /\ current' = current + 1
            /\ nx' = [nx EXCEPT ![g].pc = "index", ![g].next = current + 1]
            /\ UNCHANGED nxLog
    /\ UNCHANGED <<balance, allServers, status, healthy, conns, lbHist>>
    /\ NxFrame

\* RoundRobin.Next: idx := (next - 1) % len(b.healthy); return b.healthy[idx];
\* the modulo panics on an empty list
NxRoundRobinIndex(g) ==
    /\ nx[g].pc = "index"
    /\ IF Len(healthy) = 0
       THEN NxReturn(g, Returned(g, nx[g].next, 0, NoServer, FALSE, TRUE))
       ELSE LET idx == (nx[g].next - 1) % Len(healthy)
            IN NxReturn(g, Returned(g, nx[g].next, idx, healthy[idx + 1], FALSE, FALSE))
    /\ UNCHANGED <<lbVars, lbHist>>
    /\ NxFrame

\* Random.Next: the length check, then b.rnd.Intn is entered; it reads and
\* writes the state of the generator made by rand.New
NxRandomEnter(g) ==
    /\ Strategy = "random"
    /\ nx[g].pc = "locked"
    /\ IF Len(healthy) = 0
       THEN NxReturn(g, Returned(g, 0, 0, NoServer, TRUE, FALSE))
       ELSE /\ nx' = [nx EXCEPT ![g].pc = "rnd"]
            /\ UNCHANGED nxLog
    /\ UNCHANGED <<lbVars, lbHist>>
    /\ NxFrame

\* b.rnd.Intn returns: any index of the list; when another goroutine was
\* inside the generator at the same time the two raced on its state, and
\* the call may also panic
NxRandomIntn(g) ==
    /\ nx[g].pc = "rnd"
    /\ \/ \E i \in 0..(Len(healthy) - 1) :
             NxReturn(g, Returned(g, 0, i, healthy[i + 1], FALSE, FALSE))
       \/ /\ \E o \in Goroutines \ {g} : nx[o].pc = "rnd"
          /\ NxReturn(g, Returned(g, 0, 0, NoServer, FALSE, TRUE))
    /\ UNCHANGED <<lbVars, lbHist>>
    /\ NxFrame

\* LeastConn.Next: the scan of the healthy list and of the counts
NxLeastConn(g) ==
    /\ Strategy = "leastconn"
    /\ nx[g].pc = "locked"
    /\ \E o \in LeastConn_Next : NxReturn(g, Returned(g, 0, o.idx, o.server, o.err, FALSE))
    /\ UNCHANGED <<lbVars, lbHist>>
    /\ NxFrame

WriteLockFree_IgnoresReaders == TRUE

\* b.mu.Lock() is granted when no goroutine holds the read lock
WriteLockFree == \A g \in Goroutines : nx[g].pc = "idle"

\* UpdateStatus of a server of the pool, by the health checker, runs under
\* the write lock
NxWriter ==
    /\ WriteLockFree
    /\ \E server \in Range(allServers), h \in BOOLEAN :
        /\ UpdateStatus(server, h)
        /\ statusTouched' = TRUE
    /\ UNCHANGED <<balance, allServers, current, conns, lbLast, nextCalls, nxVars>>
    /\ NxFrame

\* a fresh balancer of each strategy over two or three servers
InitNext ==
    /\ lDefaultBackend = "b1"
    /\ lAddr = [IP |-> IPv4Loopback, Port |-> ListenPort]
    /\ IdleTCP
    /\ IdleUDP
    /\ IdleMux
    /\ IdleEncoder
    /\ IdleExt
    /\ balance \in {"roundrobin", "random", "leastconn"}
    /\ allServers \in {<<"s1", "s2">>, <<"s1", "s2", "s3">>}
    /\ status = NewStatus(allServers)
    /\ healthy = allServers
    /\ current = 0
    /\ conns = IF Strategy = "leastconn" THEN NewConns(allServers) ELSE <<>>
    /\ lbLast = Other("new")
    /\ nextCalls = 0
    /\ statusTouched = FALSE

NextNext ==
    \/ \E g \in Goroutines : NxRLock(g)
    \/ \E g \in Goroutines : NxRoundRobinAdd(g)
    \/ \E g \in Goroutines : NxRoundRobinIndex(g)
    \/ \E g \in Goroutines : NxRandomEnter(g)
    \/ \E g \in Goroutines : NxRandomIntn(g)
    \/ \E g \in Goroutines : NxLeastConn(g)
    \/ NxWriter

SpecNext == InitNext /\ [][NextNext]_vars

\* ------------------------------- core/health, the checker of one pool
\* what the checker never touches
HcFrame == UNCHANGED <<tcpVars, tcpHist, udpVars, udpHist, muxVars, pxVars, runVars, nxVars>>

\* updateStatus: "State changed", also for a server without an entry
Changed_OnlyKnown(exists, old, h) == exists /\ old # h

Changed(exists, old, h) == (~exists) \/ old # h

\* the callback Engine.Start registers: balancer.UpdateStatus(server, healthy)
OnStatusChange_NotForwarded(server, h) == UNCHANGED <<status, healthy>>

OnStatusChange(server, h) == UpdateStatus(server, h)

\* loop: a tick runs checkAll, which starts one goroutine per server of the
\* pool; wg.Wait() keeps the next tick behind the whole round
HcTick ==
    /\ hcRounds < MaxRounds
    /\ \A s \in Names : probes[s].pc \in {"none", "done"}
    /\ hcRounds' = hcRounds + 1
    /\ probes' = [s \in Names |->
                      IF s \in Range(allServers)
                      THEN [pc |-> "probe", healthy |-> FALSE, exists |-> FALSE,
                            old |-> FALSE, cb |-> 0]
                      ELSE NoProbe]
    /\ UNCHANGED <<chkStatus, hcMu, lbVars, lbHist>>
    /\ HcFrame

\* probe: the server answers or does not
HcProbe(s) ==
    /\ probes[s].pc = "probe"
    /\ \E h \in BOOLEAN : probes' = [probes EXCEPT ![s].pc = "update", ![s].healthy = h]
    /\ UNCHANGED <<chkStatus, hcMu, hcRounds, lbVars, lbHist>>
    /\ HcFrame

\* updateStatus up to the callback: c.mu is taken, the entry is compared
\* and stored; without a change the mutex is released at once
HcUpdateStatus(s) ==
    /\ probes[s].pc = "update"
    /\ hcMu = NoServer
    /\ LET exists == s \in DOMAIN chkStatus
           old == MapGetBool(chkStatus, s)
           h == probes[s].healthy
       IN IF Changed(exists, old, h)
          THEN /\ chkStatus' = MapPut(chkStatus, s, h)
               /\ hcMu' = s
               /\ probes' = [probes EXCEPT ![s].pc = "callback", ![s].exists = exists,
                                           ![s].old = old]
          ELSE /\ probes' = [probes EXCEPT ![s].pc = "done", ![s].exists = exists,
                                           ![s].old = old]
               /\ UNCHANGED <<chkStatus, hcMu>>
    /\ UNCHANGED <<hcRounds, lbVars, lbHist>>
    /\ HcFrame

\* the rest of updateStatus: c.OnStatusChange(addr, healthy) runs with c.mu
\* held, and the deferred Unlock follows
HcCallback(s) ==
    /\ probes[s].pc = "callback"
    /\ hcMu = s
    /\ OnStatusChange(s, probes[s].healthy)
    /\ lbLast' = Updated(s, probes[s].healthy)
    /\ statusTouched' = TRUE
    /\ probes' = [probes EXCEPT ![s].pc = "done", ![s].cb = @ + 1]
    /\ hcMu' = NoServer
    /\ UNCHANGED <<chkStatus, hcRounds, balance, allServers, current, conns, nextCalls>>
    /\ HcFrame

\* a pool with a health check interval, its balancer fresh from NewBalancer
InitHealth ==
    /\ lDefaultBackend = "b1"
    /\ lAddr = [IP |-> IPv4Loopback, Port |-> ListenPort]
    /\ IdleTCP
    /\ IdleUDP
    /\ IdleMux
    /\ IdleEncoder
    /\ IdleExt
    /\ balance \in {"roundrobin", "random", "leastconn"}
    /\ allServers \in {<<"s1">>, <<"s1", "s2">>}
    /\ status = NewStatus(allServers)
    /\ healthy = allServers
    /\ current = 0
    /\ conns = IF Strategy = "leastconn" THEN NewConns(allServers) ELSE <<>>
    /\ lbLast = Other("new")
    /\ nextCalls = 0
    /\ statusTouched = FALSE

\* the checker's goroutines and the handlers' calls to Next
NextHealth ==
    \/ HcTick
    \/ \E s \in Names : HcProbe(s)
    \/ \E s \in Names : HcUpdateStatus(s)
    \/ \E s \in Names : HcCallback(s)
    \/ RoundRobinNext
    \/ RandomNext
    \/ LeastConnNext

SpecHealth == InitHealth /\ [][NextHealth]_vars

\* ------------------------------------------------ core/handler.go, TCP
\* net.Conn.Write on the dialed socket: everything is written, or the write
\* fails after a strict prefix; a socket closed on this side takes nothing.
SockWrite(sk, data) ==
    IF sk.state # "open"
    THEN {[ok |-> FALSE, written |-> sk.written]}
    ELSE {[ok |-> TRUE, written |-> sk.written \o data]}
         \cup {[ok |-> FALSE, written |-> sk.written \o SubSeq(data, 1, k)] :
                 k \in 0..(Len(data) - 1)}

safeClose_Forgotten(c) == UNCHANGED asyncQ

\* safeClose: the close callback is queued behind the pending write callbacks
safeClose(c) == asyncQ' = [asyncQ EXCEPT ![c] = Append(@, [kind |-> "close", data |-> 0])]

\* the balancer is left alone by a step of the handler that does not call it
LBUntouched == UNCHANGED <<lbVars, lbHist>>
UDPUntouched == UNCHANGED <<udpVars, udpHist>>
\* the listener table and the encoder are left alone by the data path
MuxUntouched == UNCHANGED <<muxVars, pxVars, extVars>>

\* OnOpen: attach a fresh ConnContext and start connectBackend
OnOpen(c) ==
    /\ cState[c] = "new"
    /\ cState' = [cState EXCEPT ![c] = "open"]
    /\ cCtx' = [cCtx EXCEPT ![c] = c]
    /\ dial' = [dial EXCEPT ![c].pc = "select"]
    /\ UNCHANGED <<lDefaultBackend, lAddr, ctx, sock, asyncQ, closeReq, received, clientLog>>
    /\ LBUntouched
    /\ UDPUntouched
    /\ MuxUntouched

\* OnClose, followed by gnet releasing the connection (its context is reset):
\* the backend socket held by the context is closed and closed is set.
\* sk is the state of the sockets when the handler is entered.
OnClose_KeepsBackend(c, sk) ==
    /\ ctx' = [ctx EXCEPT ![c].closed = TRUE]
    /\ sock' = sk
    /\ cState' = [cState EXCEPT ![c] = "released"]
    /\ cCtx' = [cCtx EXCEPT ![c] = NilCtx]

OnClose(c, sk) ==
    /\ ctx' = [ctx EXCEPT ![c].closed = TRUE]
    /\ sock' = IF ctx[c].BackendConn # "nil"
               THEN [sk EXCEPT ![c].state = "closed"]
               ELSE sk
    /\ cState' = [cState EXCEPT ![c] = "released"]
    /\ cCtx' = [cCtx EXCEPT ![c] = NilCtx]

\* the client closes the connection or the loop sees a read error on it
ClientClose(c) ==
    /\ cState[c] = "open"
    /\ OnClose(c, sock)
    /\ UNCHANGED <<lDefaultBackend, lAddr, dial, asyncQ, closeReq, received, clientLog>>
    /\ LBUntouched
    /\ UDPUntouched
    /\ MuxUntouched

\* connectBackend up to the dial: look the balancer up and pick a server
DialSelect(c) ==
    /\ dial[c].pc = "select"
    /\ IF lDefaultBackend = ""
       THEN \* no balancer of that name: c.Close() at once
            /\ closeReq' = [closeReq EXCEPT ![c] = TRUE]
            /\ dial' = [dial EXCEPT ![c].pc = "done"]
            /\ UNCHANGED <<asyncQ, lbVars, lbHist>>
       ELSE \E o \in Balancer_Next :
            /\ current' = o.cur
            /\ IF o.err
               THEN /\ safeClose(c)
                    /\ dial' = [dial EXCEPT ![c].pc = "done", ![c].sel = @ + 1,
                                            ![c].failed = TRUE]
               ELSE /\ dial' = [dial EXCEPT ![c].pc = "dial", ![c].sel = @ + 1,
                                            ![c].target = o.server,
                                            ![c].addr = DialTarget(o.server, lAddr.Port)]
                    /\ UNCHANGED asyncQ
            /\ UNCHANGED <<balance, allServers, status, healthy, conns, lbHist, closeReq>>
    /\ UNCHANGED <<lDefaultBackend, lAddr, cState, cCtx, ctx, sock, received, clientLog>>
    /\ UDPUntouched
    /\ MuxUntouched

\* net.DialTimeout returns: a connected socket, or an error
DialReturn(c) ==
    /\ dial[c].pc = "dial"
    /\ \E ok \in BOOLEAN :
        IF ok
        THEN /\ sock' = [sock EXCEPT ![c].state = "open"]
             /\ dial' = [dial EXCEPT ![c].pc = "publish", ![c].dials = @ + 1]
             /\ UNCHANGED asyncQ
        ELSE /\ safeClose(c)
             /\ dial' = [dial EXCEPT ![c].pc = "done", ![c].dials = @ + 1,
                                     ![c].failed = TRUE]
             /\ UNCHANGED sock
    /\ UNCHANGED <<lDefaultBackend, lAddr, cState, cCtx, ctx, closeReq, received, clientLog>>
    /\ LBUntouched
    /\ UDPUntouched
    /\ MuxUntouched

\* connectBackend's critical section: drop the socket if the context is
\* closed, else store it, set connected and flush the buffer.
DialPublish_NoClosedCheck(c) ==
    /\ dial[c].pc = "publish"
    /\ IF Len(ctx[c].buffer) > 0
       THEN \E w \in SockWrite(sock[c], ctx[c].buffer) :
            IF w.ok
            THEN /\ ctx' = [ctx EXCEPT ![c].BackendConn = "rc", ![c].connected = TRUE,
                                       ![c].buffer = <<>>, ![c].bufferNil = TRUE]
                 /\ sock' = [sock EXCEPT ![c].written = w.written]
                 /\ dial' = [dial EXCEPT ![c].pc = "read"]
                 /\ UNCHANGED asyncQ
            ELSE /\ ctx' = [ctx EXCEPT ![c].BackendConn = "rc", ![c].connected = TRUE]
                 /\ sock' = [sock EXCEPT ![c].written = w.written, ![c].state = "closed"]
                 /\ safeClose(c)
                 /\ dial' = [dial EXCEPT ![c].pc = "done"]
       ELSE /\ ctx' = [ctx EXCEPT ![c].BackendConn = "rc", ![c].connected = TRUE]
            /\ dial' = [dial EXCEPT ![c].pc = "read"]
            /\ UNCHANGED <<sock, asyncQ>>
    /\ UNCHANGED <<lDefaultBackend, lAddr, cState, cCtx, closeReq, received, clientLog>>
    /\ LBUntouched
    /\ UDPUntouched
    /\ MuxUntouched

DialPublish(c) ==
    /\ dial[c].pc = "publish"
    /\ IF ctx[c].closed
       THEN /\ sock' = [sock EXCEPT ![c].state = "closed"]
            /\ dial' = [dial EXCEPT ![c].pc = "done"]
            /\ UNCHANGED <<ctx, asyncQ>>
       ELSE IF Len(ctx[c].buffer) > 0
       THEN \E w \in SockWrite(sock[c], ctx[c].buffer) :
            IF w.ok
            THEN /\ ctx' = [ctx EXCEPT ![c].BackendConn = "rc", ![c].connected = TRUE,
                                       ![c].buffer = <<>>, ![c].bufferNil = TRUE]
                 /\ sock' = [sock EXCEPT ![c].written = w.written]
                 /\ dial' = [dial EXCEPT ![c].pc = "read"]
                 /\ UNCHANGED asyncQ
            ELSE /\ ctx' = [ctx EXCEPT ![c].BackendConn = "rc", ![c].connected = TRUE]
                 /\ sock' = [sock EXCEPT ![c].written = w.written, ![c].state = "closed"]
                 /\ safeClose(c)
                 /\ dial' = [dial EXCEPT ![c].pc = "done"]
       ELSE /\ ctx' = [ctx EXCEPT ![c].BackendConn = "rc", ![c].connected = TRUE]
            /\ dial' = [dial EXCEPT ![c].pc = "read"]
            /\ UNCHANGED <<sock, asyncQ>>
    /\ UNCHANGED <<lDefaultBackend, lAddr, cState, cCtx, closeReq, received, clientLog>>
    /\ LBUntouched
    /\ UDPUntouched
    /\ MuxUntouched

\* one turn of the copy loop: rc.Read returns data, data with an error, or
\* an error alone; data is handed to c.AsyncWrite, which may itself fail.
DialRead_NewestFirst(c) ==
    /\ dial[c].pc = "read"
    /\ \E n \in {0, 1}, err \in BOOLEAN, errAsync \in BOOLEAN :
        /\ n > 0 \/ err
        /\ n > 0 => sock[c].state = "open" /\ dial[c].reads < MaxReads
        /\ errAsync => n > 0
        /\ asyncQ' = IF n > 0 /\ ~errAsync
                     THEN [asyncQ EXCEPT ![c] = <<[kind |-> "write",
                                                     data |-> dial[c].reads + 1]>> \o @]
                     ELSE asyncQ
        /\ dial' = [dial EXCEPT ![c].pc = IF err \/ errAsync THEN "finish" ELSE "read",
                                ![c].reads = @ + n]
    /\ UNCHANGED <<lDefaultBackend, lAddr, cState, cCtx, ctx, sock, closeReq, received, clientLog>>
    /\ LBUntouched
    /\ UDPUntouched
    /\ MuxUntouched

DialRead(c) ==
    /\ dial[c].pc = "read"
    /\ \E n \in {0, 1}, err \in BOOLEAN, errAsync \in BOOLEAN :
        /\ n > 0 \/ err
        /\ n > 0 => sock[c].state = "open" /\ dial[c].reads < MaxReads
        /\ errAsync => n > 0
        /\ asyncQ' = IF n > 0 /\ ~errAsync
                     THEN [asyncQ EXCEPT ![c] = Append(@, [kind |-> "write",
                                                          data |-> dial[c].reads + 1])]
                     ELSE asyncQ
        /\ dial' = [dial EXCEPT ![c].pc = IF err \/ errAsync THEN "finish" ELSE "read",
                                ![c].reads = @ + n]
    /\ UNCHANGED <<lDefaultBackend, lAddr, cState, cCtx, ctx, sock, closeReq, received, clientLog>>
    /\ LBUntouched
    /\ UDPUntouched
    /\ MuxUntouched

\* after the loop: safeClose
DialFinish(c) ==
    /\ dial[c].pc = "finish"
    /\ safeClose(c)
    /\ dial' = [dial EXCEPT ![c].pc = "setclosed"]
    /\ UNCHANGED <<lDefaultBackend, lAddr, cState, cCtx, ctx, sock, closeReq, received, clientLog>>
    /\ LBUntouched
    /\ UDPUntouched
    /\ MuxUntouched

\* the last statement of connectBackend: closed = true under the mutex
DialSetClosed(c) ==
    /\ dial[c].pc = "setclosed"
    /\ ctx' = [ctx EXCEPT ![c].closed = TRUE]
    /\ dial' = [dial EXCEPT ![c].pc = "done"]
    /\ UNCHANGED <<lDefaultBackend, lAddr, cState, cCtx, sock, asyncQ, closeReq, received, clientLog>>
    /\ LBUntouched
    /\ UDPUntouched
    /\ MuxUntouched

handleTCP_BufferInFront(c, data) ==
    IF Len(data) = 0
    THEN UNCHANGED <<ctx, sock, cState, cCtx>>
    ELSE IF ctx[c].connected
    THEN \E w \in SockWrite(sock[c], data) :
         IF w.ok
         THEN /\ sock' = [sock EXCEPT ![c].written = w.written]
              /\ UNCHANGED <<ctx, cState, cCtx>>
         ELSE OnClose(c, [sock EXCEPT ![c].written = w.written])
    ELSE /\ ctx' = [ctx EXCEPT ![c].buffer = data \o @]
         /\ UNCHANGED <<sock, cState, cCtx>>

\* handleTCP with the data of c.Next(-1): nothing for no data; write it to
\* the backend when connected, else append it to the buffer; a failed write
\* returns gnet.Close, on which the loop closes the connection (OnClose).
handleTCP(c, data) ==
    IF Len(data) = 0
    THEN UNCHANGED <<ctx, sock, cState, cCtx>>
    ELSE IF ctx[c].connected
    THEN \E w \in SockWrite(sock[c], data) :
         IF w.ok
         THEN /\ sock' = [sock EXCEPT ![c].written = w.written]
              /\ UNCHANGED <<ctx, cState, cCtx>>
         ELSE OnClose(c, [sock EXCEPT ![c].written = w.written])
    ELSE /\ ctx' = [ctx EXCEPT ![c].buffer = @ \o data]
         /\ UNCHANGED <<sock, cState, cCtx>>

\* the n bytes a client sends after its first k: a byte is named by its
\* position in the client's stream
ClientBytes(k, n) == [i \in 1..n |-> k + i]

\* OnTraffic on a TCP listener
OnTrafficTCP(c) ==
    /\ cState[c] = "open"
    /\ \E n \in 0..(MaxRecv - Len(received[c])) :
        LET data == ClientBytes(Len(received[c]), n)
        IN /\ received' = [received EXCEPT ![c] = @ \o data]
           /\ handleTCP(c, data)
    /\ UNCHANGED <<lDefaultBackend, lAddr, dial, asyncQ, closeReq, clientLog>>
    /\ LBUntouched
    /\ UDPUntouched
    /\ MuxUntouched

AsyncWriteCallback_Unguarded(attached, captured, err) == "write"

\* the callback connectBackend gives to c.AsyncWrite: what it does when the
\* loop runs it, given the context then attached to the connection
AsyncWriteCallback(attached, captured, err) ==
    IF attached # captured THEN "stale"
    ELSE IF err THEN "error"
    ELSE "write"

\* the event loop runs the oldest callback of the connection; gnet passes
\* an error to the callback when the connection is no longer open
RunAsync(c) ==
    /\ asyncQ[c] # <<>>
    /\ asyncQ' = [asyncQ EXCEPT ![c] = Tail(@)]
    /\ LET cb == Head(asyncQ[c])
       IN IF cb.kind = "write"
          THEN /\ clientLog' = [clientLog EXCEPT ![c] = Append(@,
                      [data |-> cb.data,
                       act |-> AsyncWriteCallback(cCtx[c], c, cState[c] # "open"),
                       attached |-> cCtx[c],
                       open |-> cState[c] = "open"])]
               /\ UNCHANGED closeReq
          ELSE \* safeClose's callback: c.Close() unless the context is stale
               /\ closeReq' = [closeReq EXCEPT ![c] = @ \/ cCtx[c] = c]
               /\ UNCHANGED clientLog
    /\ UNCHANGED <<lDefaultBackend, lAddr, cState, cCtx, ctx, dial, sock, received>>
    /\ LBUntouched
    /\ UDPUntouched
    /\ MuxUntouched

\* the event loop runs a queued c.Close(): it closes a connection that is
\* still open and ignores one that is not
RunClose(c) ==
    /\ closeReq[c]
    /\ closeReq' = [closeReq EXCEPT ![c] = FALSE]
    /\ IF cState[c] = "open"
       THEN OnClose(c, sock)
       ELSE UNCHANGED <<ctx, sock, cState, cCtx>>
    /\ UNCHANGED <<lDefaultBackend, lAddr, dial, asyncQ, received, clientLog>>
    /\ LBUntouched
    /\ UDPUntouched
    /\ MuxUntouched

\* a listener of a port range with or without a default backend, over a
\* pool that is empty or holds two servers, the first one with or without
\* a port
InitTCP ==
    /\ lDefaultBackend \in {"", "b1"}
    /\ lAddr \in [IP : {IPv4Loopback}, Port : ListenPorts]
    /\ IdleTCP
    /\ sendProxyV2 \in BOOLEAN
    /\ udpSessions = [k \in Clients |-> NoConn]
    /\ usock = <<>>
    /\ uw = [w \in Workers |-> IdleWorker]
    /\ dgramCount = 0
    /\ udpLast = NoWrite
    /\ IdleMux
    /\ IdleEncoder
    /\ IdleExt
    /\ balance \in {"roundrobin", "leastconn"}
    /\ allServers \in {<<>>, <<"s1", "s2">>, <<"s3", "s1">>}
    /\ status = NewStatus(allServers)
    /\ healthy = allServers
    /\ current = 0
    /\ conns = IF Strategy = "leastconn" THEN NewConns(allServers) ELSE <<>>
    /\ lbLast = Other("new")
    /\ nextCalls = 0
    /\ statusTouched = FALSE

NextTCP ==
    \E c \in Conns :
        \/ OnOpen(c)
        \/ OnTrafficTCP(c)
        \/ ClientClose(c)
        \/ DialSelect(c)
        \/ DialReturn(c)
        \/ DialPublish(c)
        \/ DialRead(c)
        \/ DialFinish(c)
        \/ DialSetClosed(c)
        \/ RunAsync(c)
        \/ RunClose(c)

SpecTCP == InitTCP /\ [][NextTCP]_vars

\* the event loop runs every task queued on it: the callbacks given to
\* AsyncWrite and the close requests
SpecTCPFair ==
    /\ SpecTCP
    /\ \A c \in Conns : WF_vars(RunAsync(c)) /\ WF_vars(RunClose(c))

\* and the scheduler runs the dial goroutine whenever it can take a step
\* that does not wait for the network
SpecTCPLive ==
    /\ SpecTCPFair
    /\ \A c \in Conns : /\ WF_vars(DialPublish(c))
                        /\ WF_vars(DialFinish(c))
                        /\ WF_vars(DialSetClosed(c))

\* ------------------------------------------- proxy/proxy_protocol.go
sigV2 == <<13, 10, 13, 10, 0, 13, 10, 81, 85, 73, 84, 10>>
v2CmdProxy == 1
v2Ver == 2
v2FamIPv4 == 16
v2FamIPv6 == 32
v2ProtoTCP == 1
v2ProtoUDP == 2

\* net.IP.To4: the 4 bytes of an IPv4 address in either form, nil (the empty
\* sequence) for any other address
To4(ip) ==
    IF Len(ip) = 4 THEN ip
    ELSE IF Len(ip) = 16 /\ SubSeq(ip, 1, 10) = Zeros(10) /\ ip[11] = 255 /\ ip[12] = 255
    THEN SubSeq(ip, 13, 16)
    ELSE <<>>

\* net.IP.To16: the 16-byte form
To16(ip) ==
    IF Len(ip) = 4 THEN V4InV6(ip)
    ELSE IF Len(ip) = 16 THEN ip
    ELSE <<>>

\* binary.BigEndian.PutUint16 of uint16(v)
PutUint16_LittleEndian(v) == <<(v % 65536) % 256, (v % 65536) \div 256>>

PutUint16(v) == <<(v % 65536) \div 256, (v % 65536) % 256>>

\* the family/protocol byte: the protocol is that of src
FamProto(fam, src) == fam + (IF src.net = "tcp" THEN v2ProtoTCP ELSE v2ProtoUDP)

\* WriteProxyHeaderV2 with a writer that takes what it is given: the error
\* returned and the bytes handed to w.Write
WriteProxyHeaderV2_MismatchAsV6(src, dst) ==
    IF src.net \notin {"tcp", "udp"} \/ dst.net \notin {"tcp", "udp"}
    THEN [err |-> TRUE, written |-> <<>>]
    ELSE IF To4(src.IP) # <<>> /\ To4(dst.IP) # <<>>
    THEN [err |-> FALSE,
          written |-> sigV2 \o <<v2Ver * 16 + v2CmdProxy, FamProto(v2FamIPv4, src)>>
                      \o PutUint16(12) \o To4(src.IP) \o To4(dst.IP)
                      \o PutUint16(src.Port) \o PutUint16(dst.Port)]
    ELSE [err |-> FALSE,
          written |-> sigV2 \o <<v2Ver * 16 + v2CmdProxy, FamProto(v2FamIPv6, src)>>
                      \o PutUint16(36) \o To16(src.IP) \o To16(dst.IP)
                      \o PutUint16(src.Port) \o PutUint16(dst.Port)]

WriteProxyHeaderV2(src, dst) ==
    IF src.net \notin {"tcp", "udp"} \/ dst.net \notin {"tcp", "udp"}
    THEN [err |-> TRUE, written |-> <<>>]
    ELSE IF To4(src.IP) # <<>> /\ To4(dst.IP) # <<>>
    THEN [err |-> FALSE,
          written |-> sigV2 \o <<v2Ver * 16 + v2CmdProxy, FamProto(v2FamIPv4, src)>>
                      \o PutUint16(12) \o To4(src.IP) \o To4(dst.IP)
                      \o PutUint16(src.Port) \o PutUint16(dst.Port)]
    ELSE IF To4(src.IP) = <<>> /\ To4(dst.IP) = <<>>
    THEN [err |-> FALSE,
          written |-> sigV2 \o <<v2Ver * 16 + v2CmdProxy, FamProto(v2FamIPv6, src)>>
                      \o PutUint16(36) \o To16(src.IP) \o To16(dst.IP)
                      \o PutUint16(src.Port) \o PutUint16(dst.Port)]
    ELSE [err |-> TRUE, written |-> <<>>]

IPv6Doc == <<32, 1, 13, 184>> \o Zeros(11) \o <<1>>
\* the addresses given to the encoder: TCP, UDP and Unix addresses, IPv4 in
\* its 4-byte and its 16-byte form, IPv6
EncoderAddrs ==
    [net : {"tcp", "udp", "unix"},
     IP : {IPv4Loopback, V4InV6(IPv4Client), IPv6Loopback, IPv6Doc},
     Port : {443, 8080}]

\* one call of the encoder on a buffer
EncoderCall ==
    /\ ~pxOut.called
    /\ pxSrc # NoAddr
    /\ LET r == WriteProxyHeaderV2(pxSrc, pxDst)
       IN pxOut' = [called |-> TRUE, err |-> r.err, written |-> r.written]
    /\ UNCHANGED <<pxSrc, pxDst, muxVars, tcpVars, tcpHist, extVars>>
    /\ LBUntouched
    /\ UDPUntouched

InitEncoder ==
    /\ lDefaultBackend = ""
    /\ lAddr = [IP |-> IPv4Loopback, Port |-> ListenPort]
    /\ IdleTCP
    /\ IdleUDP
    /\ IdleMux
    /\ IdleExt
    /\ pxSrc \in EncoderAddrs
    /\ pxDst \in EncoderAddrs
    /\ pxOut = [called |-> FALSE, err |-> FALSE, written |-> <<>>]
    /\ balance = "roundrobin"
    /\ allServers = <<>>
    /\ status = NewStatus(allServers)
    /\ healthy = allServers
    /\ current = 0
    /\ conns = <<>>
    /\ lbLast = Other("new")
    /\ nextCalls = 0
    /\ statusTouched = FALSE

NextEncoder == EncoderCall

SpecEncoder == InitEncoder /\ [][NextEncoder]_vars

\* ------------------------------------------------ core/handler.go, UDP
\* udpLast.stillLive: the sessions of the datagram's client that were live
\* when handleUDP looked the client up and are live when it writes.
\* the sessions of client k whose reader goroutine has not begun to exit
LiveSessions(k) == {s \in 1..Len(usock) : usock[s].client = k /\ usock[s].reader = "run"}

TCPUntouched == UNCHANGED <<cState, cCtx, ctx, dial, sock, asyncQ, closeReq, received, clientLog>>

\* net.ResolveUDPAddr("udp", target): a target without a port is an error
ResolveUDPAddr(target) ==
    IF ServerPort(target) = NoPort
    THEN NoDial
    ELSE [host |-> target, port |-> ServerPort(target)]

\* a datagram that handleUDP returns on without writing it
Dropped(why) == [op |-> why, sock |-> NoConn, sockOpen |-> FALSE, stillLive |-> {}]

ClientPort == 40000
\* c.RemoteAddr() and c.LocalAddr() of a datagram event
RemoteAddr(k) == [net |-> "udp", IP |-> IPv4Client, Port |-> ClientPort]
LocalAddr == [net |-> "udp", IP |-> lAddr.IP, Port |-> lAddr.Port]

\* handleUDP up to the lookup: a datagram of client k is taken with
\* c.Next(-1) and udpSessions.Load(remoteAddr) is done
UDPLoad(w, k) ==
    /\ uw[w].pc = "idle"
    /\ dgramCount < MaxDatagrams
    /\ dgramCount' = dgramCount + 1
    /\ uw' = [uw EXCEPT ![w] = [pc |-> IF udpSessions[k] # NoConn THEN "write" ELSE "create",
                                client |-> k, conn |-> udpSessions[k],
                                live |-> LiveSessions(k)]]
    /\ UNCHANGED <<lDefaultBackend, lAddr, sendProxyV2, udpSessions, usock, udpLast>>
    /\ LBUntouched
    /\ TCPUntouched
    /\ MuxUntouched

\* handleUDP for a client without a session: pick a backend, dial it, store
\* the socket and start the reader; the datagram is dropped when the pool
\* is unknown, no server is healthy, the target does not resolve or the
\* dial fails.
UDPCreate_StoresOnFailure(w) ==
    /\ uw[w].pc = "create"
    /\ IF lDefaultBackend = ""
       THEN /\ uw' = [uw EXCEPT ![w] = IdleWorker]
            /\ udpLast' = Dropped("drop-pool")
            /\ UNCHANGED <<udpSessions, usock, lbVars>>
       ELSE \E o \in Balancer_Next, dialed \in BOOLEAN :
            /\ current' = o.cur
            /\ IF o.err \/ ResolveUDPAddr(o.server) = NoDial \/ ~dialed
               THEN /\ uw' = [uw EXCEPT ![w] = IdleWorker]
                    /\ udpLast' = Dropped(IF o.err THEN "drop-next"
                                          ELSE IF ResolveUDPAddr(o.server) = NoDial
                                          THEN "drop-resolve"
                                          ELSE "drop-dial")
                    /\ udpSessions' = [udpSessions EXCEPT ![uw[w].client] = Len(usock) + 1]
                    /\ usock' = Append(usock,
                          [client |-> uw[w].client, backend |-> NoServer,
                           addr |-> NoDial,
                           state |-> "closed", reader |-> "exited", written |-> <<>>])
               ELSE /\ usock' = Append(usock,
                          [client |-> uw[w].client, backend |-> o.server,
                           addr |-> ResolveUDPAddr(o.server),
                           state |-> "open", reader |-> "run", written |-> <<>>])
                    /\ udpSessions' = [udpSessions EXCEPT ![uw[w].client] = Len(usock) + 1]
                    /\ uw' = [uw EXCEPT ![w].pc = IF sendProxyV2 THEN "header" ELSE "write",
                                        ![w].conn = Len(usock) + 1]
                    /\ UNCHANGED udpLast
            /\ UNCHANGED <<balance, allServers, status, healthy, conns>>
    /\ UNCHANGED <<lDefaultBackend, lAddr, sendProxyV2, dgramCount, lbHist>>
    /\ TCPUntouched
    /\ MuxUntouched

UDPCreate(w) ==
    /\ uw[w].pc = "create"
    /\ IF lDefaultBackend = ""
       THEN /\ uw' = [uw EXCEPT ![w] = IdleWorker]
            /\ udpLast' = Dropped("drop-pool")
            /\ UNCHANGED <<udpSessions, usock, lbVars>>
       ELSE \E o \in Balancer_Next, dialed \in BOOLEAN :
            /\ current' = o.cur
            /\ IF o.err \/ ResolveUDPAddr(o.server) = NoDial \/ ~dialed
               THEN /\ uw' = [uw EXCEPT ![w] = IdleWorker]
                    /\ udpLast' = Dropped(IF o.err THEN "drop-next"
                                          ELSE IF ResolveUDPAddr(o.server) = NoDial
                                          THEN "drop-resolve"
                                          ELSE "drop-dial")
                    /\ UNCHANGED <<udpSessions, usock>>
               ELSE /\ usock' = Append(usock,
                          [client |-> uw[w].client, backend |-> o.server,
                           addr |-> ResolveUDPAddr(o.server),
                           state |-> "open", reader |-> "run", written |-> <<>>])
                    /\ udpSessions' = [udpSessions EXCEPT ![uw[w].client] = Len(usock) + 1]
                    /\ uw' = [uw EXCEPT ![w].pc = IF sendProxyV2 THEN "header" ELSE "write",
                                        ![w].conn = Len(usock) + 1]
                    /\ UNCHANGED udpLast
            /\ UNCHANGED <<balance, allServers, status, healthy, conns>>
    /\ UNCHANGED <<lDefaultBackend, lAddr, sendProxyV2, dgramCount, lbHist>>
    /\ TCPUntouched
    /\ MuxUntouched

\* handleUDP on a new session of a pool with send_proxy_v2:
\* WriteProxyHeaderV2(conn, c.RemoteAddr(), c.LocalAddr()); the header is one
\* write on the socket, nothing is written when the encoder fails or the
\* socket is closed, and the result is ignored
UDPHeader(w) ==
    /\ uw[w].pc = "header"
    /\ LET s == uw[w].conn
           r == WriteProxyHeaderV2(RemoteAddr(uw[w].client), LocalAddr)
       IN /\ usock' = IF usock[s].state = "open" /\ ~r.err
                      THEN [usock EXCEPT ![s].written = Append(@, "PROXY")]
                      ELSE usock
          /\ pxSrc' = RemoteAddr(uw[w].client)
          /\ pxDst' = LocalAddr
          /\ pxOut' = [called |-> TRUE, err |-> r.err \/ usock[s].state # "open",
                       written |-> IF usock[s].state = "open" THEN r.written ELSE <<>>]
    /\ uw' = [uw EXCEPT ![w].pc = "write"]
    /\ UNCHANGED <<lDefaultBackend, lAddr, sendProxyV2, udpSessions, dgramCount, udpLast>>
    /\ UNCHANGED <<muxVars, extVars>>
    /\ LBUntouched
    /\ TCPUntouched

\* the end of handleUDP: conn.Write(buf); the result is ignored
UDPWrite(w) ==
    /\ uw[w].pc = "write"
    /\ LET s == uw[w].conn
       IN /\ usock' = IF usock[s].state = "open"
                      THEN [usock EXCEPT ![s].written = Append(@, "DGRAM")]
                      ELSE usock
          /\ udpLast' = [op |-> "forward", sock |-> s, sockOpen |-> usock[s].state = "open",
                         stillLive |-> uw[w].live \cap LiveSessions(uw[w].client)]
    /\ uw' = [uw EXCEPT ![w] = IdleWorker]
    /\ UNCHANGED <<lDefaultBackend, lAddr, sendProxyV2, udpSessions, dgramCount>>
    /\ LBUntouched
    /\ TCPUntouched
    /\ MuxUntouched

\* the reader goroutine: a datagram of the backend is written back to the
\* client and the read deadline is moved
ReaderReply(s) ==
    /\ usock[s].reader = "run"
    /\ usock[s].state = "open"
    /\ udpLast' = [op |-> "reply", sock |-> s, sockOpen |-> TRUE, stillLive |-> {}]
    /\ UNCHANGED <<lDefaultBackend, lAddr, sendProxyV2, udpSessions, usock, uw, dgramCount>>
    /\ LBUntouched
    /\ TCPUntouched
    /\ MuxUntouched

\* the reader goroutine leaves its loop on a read error or on the deadline:
\* the deferred udpSessions.Delete(remoteAddr) runs first
ReaderDelete(s) ==
    /\ usock[s].reader = "run"
    /\ usock' = [usock EXCEPT ![s].reader = "deleted"]
    /\ udpSessions' = [udpSessions EXCEPT ![usock[s].client] = NoConn]
    /\ UNCHANGED <<lDefaultBackend, lAddr, sendProxyV2, uw, dgramCount, udpLast>>
    /\ LBUntouched
    /\ TCPUntouched
    /\ MuxUntouched

\* then the deferred conn.Close(), and the goroutine is gone; nothing of
\* the closed socket is kept but that it is closed
ReaderClose(s) ==
    /\ usock[s].reader = "deleted"
    /\ usock' = [usock EXCEPT ![s] = [client |-> @.client, backend |-> NoServer,
                                      addr |-> NoDial,
                                      state |-> "closed", reader |-> "exited",
                                      written |-> <<>>]]
    /\ UNCHANGED <<lDefaultBackend, lAddr, sendProxyV2, udpSessions, uw, dgramCount, udpLast>>
    /\ LBUntouched
    /\ TCPUntouched
    /\ MuxUntouched

\* the health checker reports a server of the pool
UDPHealthChange ==
    \E server \in Range(allServers), h \in BOOLEAN :
        /\ UpdateStatus(server, h)
        /\ UNCHANGED <<balance, allServers, current, conns, lbHist>>
        /\ UNCHANGED <<lDefaultBackend, lAddr, udpVars, udpHist>>
        /\ TCPUntouched
        /\ MuxUntouched

InitUDP ==
    /\ lDefaultBackend \in {"", "b1"}
    /\ lAddr \in [IP : {IPv4Loopback, IPv6Any}, Port : {ListenPort}]
    /\ IdleTCP
    /\ IdleMux
    /\ IdleEncoder
    /\ IdleExt
    /\ sendProxyV2 \in BOOLEAN
    /\ udpSessions = [k \in Clients |-> NoConn]
    /\ usock = <<>>
    /\ uw = [w \in Workers |-> IdleWorker]
    /\ dgramCount = 0
    /\ udpLast = NoWrite
    /\ balance = "roundrobin"
    /\ allServers \in {<<"s1", "s2">>, <<"s1">>, <<"s3">>}
    /\ status = NewStatus(allServers)
    /\ healthy = allServers
    /\ current = 0
    /\ conns = <<>>
    /\ lbLast = Other("new")
    /\ nextCalls = 0
    /\ statusTouched = FALSE

NextUDP ==
    \/ \E w \in Workers, k \in Clients : UDPLoad(w, k)
    \/ \E w \in Workers : UDPCreate(w)
    \/ \E w \in Workers : UDPHeader(w)
    \/ \E w \in Workers : UDPWrite(w)
    \/ \E s \in 1..Len(usock) : ReaderReply(s)
    \/ \E s \in 1..Len(usock) : ReaderDelete(s)
    \/ \E s \in 1..Len(usock) : ReaderClose(s)
    \/ UDPHealthChange

SpecUDP == InitUDP /\ [][NextUDP]_vars

\* the UDP layer of one IPv4 listener over a pool of one server, with a
\* port or without one
InitUDPSession ==
    /\ InitUDP
    /\ lDefaultBackend = "b1"
    /\ lAddr.IP = IPv4Loopback
    /\ Len(allServers) = 1

SpecUDPSession == InitUDPSession /\ [][NextUDP]_vars

\* the encoder called on a buffer and called by handleUDP for the pools
\* of one server with send_proxy_v2
InitProxyHeader ==
    InitEncoder \/ (InitUDP /\ sendProxyV2 /\ lDefaultBackend # "" /\ Len(allServers) = 1)

NextProxyHeader == EncoderCall \/ NextUDP

SpecProxyHeader == InitProxyHeader /\ [][NextProxyHeader]_vars

\* ------------------------------------------ main.go, port-range expansion
\* strings are sequences of characters
Digits == <<"0", "1", "2", "3", "4", "5", "6", "7", "8", "9">>
IsDigit(ch) == \E d \in 1..10 : Digits[d] = ch
DigitValue(ch) == (CHOOSE d \in 1..10 : Digits[d] = ch) - 1

\* strings.LastIndex(addr, ch): 0 when ch does not occur (Go: -1)
LastIndex(str, ch) ==
    IF \E i \in 1..Len(str) : str[i] = ch
    THEN CHOOSE i \in 1..Len(str) : str[i] = ch /\ \A j \in (i + 1)..Len(str) : str[j] # ch
    ELSE 0

Contains(str, ch) == \E i \in 1..Len(str) : str[i] = ch

\* strings.Split(str, sep) for a one-character separator
RECURSIVE Split(_, _)
Split(str, sep) ==
    IF ~Contains(str, sep)
    THEN <<str>>
    ELSE LET i == CHOOSE k \in 1..Len(str) : str[k] = sep /\ \A j \in 1..(k - 1) : str[j] # sep
         IN <<SubSeq(str, 1, i - 1)>> \o Split(SubSeq(str, i + 1, Len(str)), sep)

RECURSIVE DecimalValue(_)
DecimalValue(str) ==
    IF str = <<>> THEN 0
    ELSE 10 * DecimalValue(SubSeq(str, 1, Len(str) - 1)) + DigitValue(str[Len(str)])

\* strconv.Atoi with its error dropped: 0 for anything but a decimal
\* number, which may carry a sign
Atoi(str) ==
    LET signed == str # <<>> /\ str[1] \in {"-", "+"}
        body == IF signed THEN SubSeq(str, 2, Len(str)) ELSE str
    IN IF body = <<>> \/ \E i \in 1..Len(body) : ~IsDigit(body[i])
       THEN 0
       ELSE IF signed /\ str[1] = "-" THEN 0 - DecimalValue(body) ELSE DecimalValue(body)

\* fmt.Sprintf("%d", n) for n >= 0
RECURSIVE Itoa(_)
Itoa(n) ==
    IF n < 10 THEN <<Digits[n + 1]>>
    ELSE Itoa(n \div 10) \o <<Digits[(n % 10) + 1]>>

\* splitHostPort: split at the last colon; an error without one
splitHostPort(addr) ==
    LET lastColon == LastIndex(addr, ":")
    IN IF lastColon = 0
       THEN [err |-> TRUE, host |-> <<>>, port |-> <<>>]
       ELSE [err |-> FALSE, host |-> SubSeq(addr, 1, lastColon - 1),
             port |-> SubSeq(addr, lastColon + 1, Len(addr))]

\* the descriptor of port p of a range
RangeListener_NamedAfterStart(l, host, start, p) ==
    [Name |-> l.Name \o <<"-">> \o Itoa(start), Addr |-> host \o <<":">> \o Itoa(p),
     Protocol |-> l.Protocol, ZeroCopy |-> l.ZeroCopy,
     DefaultBackend |-> l.DefaultBackend, Port |-> p]

RangeListener(l, host, start, p) ==
    [Name |-> l.Name \o <<"-">> \o Itoa(p), Addr |-> host \o <<":">> \o Itoa(p),
     Protocol |-> l.Protocol, ZeroCopy |-> l.ZeroCopy,
     DefaultBackend |-> l.DefaultBackend, Port |-> p]

\* one pass of the loop of run over a listener of the configuration: the
\* descriptors it appends to expandedListeners
Expand(l) ==
    LET hp == splitHostPort(l.Bind)
    IN IF hp.err THEN <<>>
       ELSE IF Contains(hp.port, "-")
       THEN LET parts == Split(hp.port, "-")
                start == Atoi(parts[1])
                end == Atoi(parts[2])
            IN IF start > end THEN <<>>
               ELSE [i \in 1..(end - start + 1) |->
                        RangeListener(l, hp.host, start, start + i - 1)]
       ELSE <<[Name |-> l.Name, Addr |-> l.Bind, Protocol |-> l.Protocol,
               ZeroCopy |-> l.ZeroCopy, DefaultBackend |-> l.DefaultBackend,
               Port |-> Atoi(hp.port)]>>

\* run: the next listener of the configuration is expanded
RunExpand ==
    /\ cfgPos < Len(cfgListeners)
    /\ cfgPos' = cfgPos + 1
    /\ listeners' = listeners \o Expand(cfgListeners[cfgPos + 1])
    /\ UNCHANGED <<cfgListeners, procVars, listenerMap, muxLast, pxVars, hcVars, nxVars, tcpVars, tcpHist>>
    /\ LBUntouched
    /\ UDPUntouched

BindChars == {"h", ":", "-", "1", "2"}
BindStrings == UNION {[1..n -> BindChars] : n \in 1..MaxBindLen}

\* a configuration of one listener, which validation has given a name and
\* a bind string
InitExpand ==
    /\ lDefaultBackend = ""
    /\ lAddr = [IP |-> IPv4Loopback, Port |-> ListenPort]
    /\ IdleTCP
    /\ IdleUDP
    /\ IdleMux
    /\ IdleEncoder
    /\ IdleHealth
    /\ IdleNx
    /\ IdleProc
    /\ cfgListeners \in {<<[Name |-> <<"n">>, Bind |-> b, Protocol |-> t, ZeroCopy |-> FALSE,
                              DefaultBackend |-> IF t = "udp" THEN "" ELSE "b1"]>> :
                           b \in BindStrings, t \in {"tcp", "udp"}}
    /\ cfgPos = 0
    /\ balance = "roundrobin"
    /\ allServers = <<>>
    /\ status = NewStatus(allServers)
    /\ healthy = allServers
    /\ current = 0
    /\ conns = <<>>
    /\ lbLast = Other("new")
    /\ nextCalls = 0
    /\ statusTouched = FALSE

NextExpand == RunExpand

SpecExpand == InitExpand /\ [][NextExpand]_vars

\* ------------------------------- main.go, Engine.Start and the dispatch
Protocols == {"tcp", "udp"}
BindHosts == {IPv4Any, IPv4Loopback}
BindPorts == {8080, 9090}
\* the ports an event may name: the bound ones and one that nothing binds
EventPorts == BindPorts \cup {8081}
EventIPs == {IPv4Loopback, IPv4Client}

\* the descriptor main.go makes of a listener: Addr is "host:port", Port the
\* number parsed from it; a listener is named after its transport and port
MakeListener(host, port, proto) ==
    [Name |-> <<proto, port>>, Addr |-> [host |-> host, port |-> port], Protocol |-> proto,
     DefaultBackend |-> IF proto = "udp" THEN "b-udp" ELSE "b-tcp", Port |-> port]

Descriptors == {MakeListener(h, p, t) : h \in BindHosts, p \in BindPorts, t \in Protocols}

\* no two listeners share transport and port: they could not both bind
Bindable(ls) ==
    \A i, j \in 1..Len(ls) :
        i # j => <<ls[i].Protocol, ls[i].Port>> # <<ls[j].Protocol, ls[j].Port>>

\* Engine.Start: listenerMap[l.Addr] = l for each listener in order, a later
\* listener replacing an earlier one of the same Addr
BuildListenerMap(ls) ==
    [k \in {ls[i].Addr : i \in 1..Len(ls)} |->
        LET last == CHOOSE i \in 1..Len(ls) :
                        /\ ls[i].Addr = k
                        /\ \A j \in (i + 1)..Len(ls) : ls[j].Addr # k
        IN ls[last]]

\* net.SplitHostPort applied to "host:port": the port part
SplitHostPort(addr) == addr.port

\* getListenerConfig: the table is walked in the order of a Go map range,
\* which is any order, and the first listener whose port is the port of the
\* local address is returned; nil when the walk ends
getListenerConfig(a) ==
    LET found == {listenerMap[k] : k \in {x \in DOMAIN listenerMap :
                                              SplitHostPort(x) = a.Port}}
    IN IF found = {} THEN {NoListener} ELSE found

Event(kind, a, l, action, handler) ==
    [kind |-> kind, net |-> a.net, IP |-> a.IP, Port |-> a.Port,
     l |-> l, action |-> action, handler |-> handler]

\* Engine.Start builds the table and starts the event loop
EngineStart ==
    /\ muxLast.kind = "new"
    /\ listenerMap' = BuildListenerMap(listeners)
    /\ muxLast' = [muxLast EXCEPT !.kind = "start"]
    /\ UNCHANGED <<listeners, pxVars, extVars, tcpVars, tcpHist>>
    /\ LBUntouched
    /\ UDPUntouched

\* OnOpen of a TCP connection whose local address is a: without a listener
\* the connection is closed; with one a context is attached and
\* connectBackend is started for that listener
MuxOnOpen(c, a) ==
    /\ muxLast.kind # "new"
    /\ cState[c] = "new"
    /\ a.net = "tcp"
    /\ \E l \in getListenerConfig(a) :
        IF l = NoListener
        THEN /\ cState' = [cState EXCEPT ![c] = "released"]
             /\ muxLast' = Event("open", a, l, "Close", "none")
             /\ UNCHANGED <<cCtx, dial, lDefaultBackend, lAddr>>
        ELSE /\ cState' = [cState EXCEPT ![c] = "open"]
             /\ cCtx' = [cCtx EXCEPT ![c] = c]
             /\ dial' = [dial EXCEPT ![c].pc = "select"]
             /\ lDefaultBackend' = l.DefaultBackend
             /\ lAddr' = [IP |-> a.IP, Port |-> a.Port]
             /\ muxLast' = Event("open", a, l, "None", "connectBackend")
    /\ UNCHANGED <<ctx, sock, asyncQ, closeReq, received, clientLog>>
    /\ UNCHANGED <<listeners, listenerMap, pxVars, extVars>>
    /\ LBUntouched
    /\ UDPUntouched

\* OnTraffic of an open TCP connection: close without a listener, else
\* handleUDP or handleTCP as the listener's Protocol says; handleUDP is
\* entered here and runs as the steps of the UDP layer
MuxOnTraffic(c) ==
    /\ cState[c] = "open"
    /\ LET a == [net |-> "tcp", IP |-> lAddr.IP, Port |-> lAddr.Port]
       IN \E l \in getListenerConfig(a), n \in 0..(MaxRecv - Len(received[c])) :
           LET data == ClientBytes(Len(received[c]), n)
           IN IF l = NoListener
              THEN /\ OnClose(c, sock)
                   /\ muxLast' = Event("traffic", a, l, "Close", "none")
                   /\ UNCHANGED received
              ELSE IF l.Protocol = "udp"
              THEN /\ received' = [received EXCEPT ![c] = @ \o data]
                   /\ muxLast' = Event("traffic", a, l, "None", "handleUDP")
                   /\ UNCHANGED <<ctx, sock, cState, cCtx>>
              ELSE /\ received' = [received EXCEPT ![c] = @ \o data]
                   /\ handleTCP(c, data)
                   /\ muxLast' = Event("traffic", a, l,
                                       IF cState'[c] = "open" THEN "None" ELSE "Close",
                                       "handleTCP")
    /\ UNCHANGED <<lDefaultBackend, lAddr, dial, asyncQ, closeReq, clientLog>>
    /\ UNCHANGED <<listeners, listenerMap, pxVars, extVars>>
    /\ LBUntouched
    /\ UDPUntouched

\* OnTraffic of a datagram received on local address a: a datagram has no
\* context, so handleTCP returns gnet.Close for it
MuxOnDatagram(a) ==
    /\ muxLast.kind # "new"
    /\ a.net = "udp"
    /\ \E l \in getListenerConfig(a) :
        muxLast' = IF l = NoListener THEN Event("datagram", a, l, "Close", "none")
                   ELSE IF l.Protocol = "udp"
                   THEN Event("datagram", a, l, "None", "handleUDP")
                   ELSE Event("datagram", a, l, "Close", "handleTCP")
    /\ UNCHANGED <<listeners, listenerMap, pxVars, extVars, tcpVars, tcpHist>>
    /\ LBUntouched
    /\ UDPUntouched

\* the local addresses an event may carry
EventAddrs == [net : Protocols, IP : EventIPs, Port : EventPorts]

\* any configuration of listeners that can bind, over one pool
InitMux ==
    /\ lDefaultBackend = ""
    /\ lAddr = [IP |-> IPv4Loopback, Port |-> ListenPort]
    /\ IdleTCP
    /\ IdleUDP
    /\ IdleEncoder
    /\ IdleExt
    /\ listeners \in {ls \in SeqsUpTo(Descriptors, MaxListeners) : Bindable(ls)}
    /\ listenerMap = <<>>
    /\ muxLast = [kind |-> "new", net |-> "none", IP |-> <<>>, Port |-> 0,
                  l |-> NoListener, action |-> "None", handler |-> "none"]
    /\ balance = "roundrobin"
    /\ allServers = <<"s1", "s2">>
    /\ status = NewStatus(allServers)
    /\ healthy = allServers
    /\ current = 0
    /\ conns = <<>>
    /\ lbLast = Other("new")
    /\ nextCalls = 0
    /\ statusTouched = FALSE

NextMux ==
    \/ EngineStart
    \/ \E c \in Conns, a \in EventAddrs : MuxOnOpen(c, a)
    \/ \E c \in Conns : MuxOnTraffic(c)
    \/ \E a \in EventAddrs : MuxOnDatagram(a)

SpecMux == InitMux /\ [][NextMux]_vars

\* ------------------------------- main.go and Engine.Start: the process
\* gnet.Run called per listener, a failure only logged: the listeners that
\* bind go on serving
Rotate_PerListener(addrs) ==
    IF \E a \in addrs : a \notin unbindable THEN {"running"} ELSE {"failed"}

\* gnet.Rotate on all the addresses at once: an error when one of them
\* cannot be bound, else the call blocks in the event loops; what it does
\* with no address at all is left open
Rotate(addrs) ==
    IF \E a \in addrs : a \in unbindable THEN {"failed"}
    ELSE IF addrs = {} THEN {"failed", "running", "returned"}
    ELSE {"running"}

\* the goroutine run starts: Engine.Start builds the table and calls
\* gnet.Rotate; its error goes to errCh, which is then closed
EngineRotate ==
    /\ cfgPos = Len(cfgListeners)
    /\ engState = "new"
    /\ ~exited
    /\ listenerMap' = BuildListenerMap(listeners)
    /\ \E r \in Rotate({listeners[i].Addr : i \in 1..Len(listeners)}) :
        /\ engState' = r
        /\ errCh' = IF r = "failed" THEN "err"
                    ELSE IF r = "returned" THEN "closed"
                    ELSE errCh
    /\ UNCHANGED <<listeners, muxLast, pxVars, hcVars, nxVars, tcpVars, tcpHist>>
    /\ UNCHANGED <<cfgListeners, cfgPos, unbindable, ctxDone, runRet, exited>>
    /\ LBUntouched
    /\ UDPUntouched

\* what the process steps leave alone
ProcFrame ==
    /\ UNCHANGED <<muxVars, pxVars, hcVars, nxVars, tcpVars, tcpHist, cfgListeners, cfgPos, unbindable>>
    /\ LBUntouched
    /\ UDPUntouched

\* SIGINT or SIGTERM: signal.NotifyContext cancels the context
Cancel ==
    /\ ~ctxDone
    /\ ~exited
    /\ ctxDone' = TRUE
    /\ UNCHANGED <<engState, errCh, runRet, exited>>
    /\ ProcFrame

\* the select of run: nil on ctx.Done(), the engine's error from errCh, nil
\* when errCh was closed without one; any ready case may be taken
RunSelect ==
    /\ cfgPos = Len(cfgListeners)
    /\ runRet = "none"
    /\ \/ ctxDone /\ runRet' = "nil"
       \/ errCh = "err" /\ runRet' = "error"
       \/ errCh = "closed" /\ runRet' = "nil"
    /\ UNCHANGED <<engState, ctxDone, errCh, exited>>
    /\ ProcFrame

\* main returns after run, or calls os.Exit(1) on its error
ProcessExit ==
    /\ runRet # "none"
    /\ ~exited
    /\ exited' = TRUE
    /\ UNCHANGED <<engState, ctxDone, errCh, runRet>>
    /\ ProcFrame

\* the event loops and the dial goroutines run while gnet.Rotate does and
\* the process lives
Serve ==
    /\ engState = "running"
    /\ ~exited
    /\ NextTCP

RunBinds == {<<"h", ":", "1">>, <<"h", ":", "2">>, <<"h", ":", "1", "-", "2">>, <<"h">>}
RunListener(b) ==
    [Name |-> <<"n">>, Bind |-> b, Protocol |-> "tcp", ZeroCopy |-> FALSE,
     DefaultBackend |-> "b1"]

\* a configuration of one or two TCP listeners over a pool of one server;
\* the OS refuses any of the two ports
InitRun ==
    /\ lDefaultBackend = "b1"
    /\ lAddr = [IP |-> IPv4Loopback, Port |-> ListenPort]
    /\ IdleTCP
    /\ IdleUDP
    /\ IdleMux
    /\ IdleEncoder
    /\ IdleHealth
    /\ IdleNx
    /\ cfgListeners \in {<<RunListener(a)>> : a \in RunBinds}
                        \cup {<<RunListener(a), RunListener(b)>> : a, b \in RunBinds}
    /\ cfgPos = 0
    /\ unbindable \in SUBSET {<<"h", ":", "1">>, <<"h", ":", "2">>}
    /\ engState = "new"
    /\ ctxDone = FALSE
    /\ errCh = "empty"
    /\ runRet = "none"
    /\ exited = FALSE
    /\ balance = "roundrobin"
    /\ allServers = <<"s1">>
    /\ status = NewStatus(allServers)
    /\ healthy = allServers
    /\ current = 0
    /\ conns = <<>>
    /\ lbLast = Other("new")
    /\ nextCalls = 0
    /\ statusTouched = FALSE

NextRun ==
    \/ RunExpand
    \/ EngineRotate
    \/ Cancel
    \/ RunSelect
    \/ ProcessExit
    \/ Serve

SpecRun == InitRun /\ [][NextRun]_vars

\* ------------------------------------------------ balancer properties
\* the healthy servers as the status map defines them, in configured order
HealthyNow == SelectSeq(allServers, LAMBDA s : MapGetBool(status, s))

\* C6: a round-robin balancer whose servers are all healthy and whose status
\* was never updated returns allServers[(k mod N) + 1] on its k-th call to
\* Next (k from 0), without error, for every pool size N >= 1.
C6_RoundRobinSequence ==
    (Strategy = "roundrobin" /\ ~statusTouched /\ lbLast.op = "next"
        /\ Len(allServers) >= 1)
    => /\ ~lbLast.err
       /\ lbLast.server = allServers[((nextCalls - 1) % Len(allServers)) + 1]

\* a pool of three distinct servers has wrapped around on its fourth call
C6_Witness ==
    /\ Strategy = "roundrobin" /\ ~statusTouched /\ lbLast.op = "next"
    /\ Len(allServers) = 3 /\ Cardinality(Range(allServers)) = 3
    /\ nextCalls = 4 /\ lbLast.server = allServers[1]

\* C7: a round-robin Next never returns a server whose status is false (one
\* marked unhealthy and not marked healthy again), what it returns is the
\* element at its index of the configured list filtered by health, and two
\* Next calls in a row return neighbours of that list, cyclically.
C7_UnhealthySkipped ==
    [][(Strategy = "roundrobin" /\ nextCalls' = nextCalls + 1 /\ ~lbLast'.err)
        => /\ MapGetBool(status', lbLast'.server)
           /\ lbLast'.idx < Len(HealthyNow)
           /\ lbLast'.server = HealthyNow[lbLast'.idx + 1]
           /\ (lbLast.op = "next" /\ ~lbLast.err)
                => lbLast'.idx = (lbLast.idx + 1) % Len(HealthyNow)]_vars

\* the middle server of three is down and Next has gone from the first to
\* the third
C7_Witness ==
    /\ Strategy = "roundrobin" /\ lbLast.op = "next" /\ ~lbLast.err
    /\ Len(allServers) = 3 /\ Cardinality(Range(allServers)) = 3
    /\ ~MapGetBool(status, allServers[2])
    /\ MapGetBool(status, allServers[1]) /\ MapGetBool(status, allServers[3])
    /\ lbLast.server = allServers[3] /\ nextCalls >= 2

\* C8: for every strategy Next fails, and returns no server, exactly when no
\* configured server is healthy (an empty pool, or all marked unhealthy).
C8_ErrorIffNoneHealthy ==
    lbLast.op = "next"
    => /\ lbLast.err <=> (\A i \in 1..Len(allServers) : ~MapGetBool(status, allServers[i]))
       /\ lbLast.err => lbLast.server = NoServer
       /\ ~lbLast.err => lbLast.server \in Range(allServers)

\* Next has failed on a pool of two servers that were both marked unhealthy
C8_Witness ==
    /\ lbLast.op = "next" /\ lbLast.err /\ Len(allServers) >= 2
    /\ Strategy \in {"random", "leastconn"}

\* C9: least-connections Next returns a healthy server whose counter is
\* minimal among the healthy servers, and every healthy server before it in
\* the healthy list has a strictly larger counter.
C9_LeastConnMinimal ==
    (Strategy = "leastconn" /\ lbLast.op = "next" /\ ~lbLast.err)
    => LET H == HealthyNow
           i == lbLast.idx + 1
       IN /\ i \in 1..Len(H)
          /\ H[i] = lbLast.server
          /\ \A j \in 1..Len(H) : MapGetInt(conns, H[j]) >= MapGetInt(conns, H[i])
          /\ \A j \in 1..(i - 1) : MapGetInt(conns, H[j]) > MapGetInt(conns, H[i])

\* the second of three healthy servers was chosen over a tie with the third,
\* after connects, disconnects and a status update
C9_Witness ==
    /\ Strategy = "leastconn" /\ lbLast.op = "next" /\ ~lbLast.err
    /\ statusTouched /\ Len(HealthyNow) = 3 /\ Cardinality(Range(allServers)) = 3
    /\ lbLast.idx = 1
    /\ MapGetInt(conns, HealthyNow[2]) = MapGetInt(conns, HealthyNow[3])
    /\ MapGetInt(conns, HealthyNow[1]) > 0 /\ MapGetInt(conns, HealthyNow[2]) < 0

\* ------------------------------------------------ TCP handler properties
IsPrefix(a, b) == Len(a) <= Len(b) /\ SubSeq(b, 1, Len(a)) = a

\* C1: what was written to the backend socket of a connection is a prefix of
\* what the client sent, in order; until the dial is published nothing is
\* written and the buffer holds all of it; once it is published, while the
\* connection and the socket are open, all of it has been written.
C1_ClientToBackendInOrder ==
    \A c \in Conns :
        /\ IsPrefix(sock[c].written, received[c])
        /\ ~ctx[c].connected
             => sock[c].written = <<>> /\ ctx[c].buffer = received[c]
        /\ (ctx[c].connected /\ cState[c] = "open" /\ sock[c].state = "open")
             => sock[c].written = received[c] /\ ctx[c].buffer = <<>>

\* the bytes that came during the dial were flushed and the buffer released;
\* everything the client sent has reached the backend in order
C1_Witness ==
    \E c \in Conns :
        /\ ctx[c].bufferNil
        /\ ctx[c].connected /\ cState[c] = "open" /\ sock[c].state = "open"
        /\ received[c] = <<1, 2>> /\ sock[c].written = <<1, 2>>

\* C2: a write callback of the backend reader writes to the client only when
\* the context attached to the connection is the captured one and the
\* connection has not been closed; with another context attached it drops
\* the data.
C2_NoStaleClientWrite ==
    \A c \in Conns : \A i \in 1..Len(clientLog[c]) :
        LET e == clientLog[c][i]
        IN /\ e.act = "write" => e.attached = c /\ e.open
           /\ e.attached # c => e.act = "stale"

\* one connection got its chunk, the chunk of another was dropped after the
\* close
C2_Witness ==
    \E c \in Conns : \E i, j \in 1..Len(clientLog[c]) :
        /\ i < j
        /\ clientLog[c][i].act = "write"
        /\ clientLog[c][j].act = "stale" /\ ~clientLog[c][j].open

\* the connections proxied to server s that are open
OpenProxied(s) ==
    {c \in Conns : /\ ctx[c].connected /\ dial[c].target = s
                   /\ sock[c].state = "open" /\ cState[c] = "open"}

\* C10: with leastconn the counter of a server equals the number of open
\* proxied connections to it.
C10_InflightCountsOpenConnections ==
    Strategy = "leastconn"
    => \A s \in Names : MapGetInt(conns, s) = Cardinality(OpenProxied(s))

\* ------------------------------------------------ UDP session properties
\* C3: a datagram of a client is written to the socket of the session the
\* client had when the datagram arrived, if that session has not expired.
C3_StickySession ==
    udpLast.op = "forward" => udpLast.stillLive \subseteq {udpLast.sock}

\* C4: a client address never has two sessions (two backend sockets with a
\* running reader) at the same time.
C4_OneSessionPerClient ==
    \A k \in Clients : Cardinality(LiveSessions(k)) <= 1

\* C5: the table entry of a session is present while its reader runs, and an
\* entry is removed only by the exit of the reader of the session it holds.
C5_EntryLivesWithReader ==
    /\ [](\A s \in 1..Len(usock) :
            usock[s].reader = "run" => udpSessions[usock[s].client] = s)
    /\ [][\A k \in Clients :
            (udpSessions[k] # NoConn /\ udpSessions'[k] = NoConn)
            => /\ usock[udpSessions[k]].reader = "run"
               /\ usock'[udpSessions[k]].reader = "deleted"]_vars

\* ------------------------------------------------- dispatch properties
IsEvent == muxLast.kind \in {"open", "traffic", "datagram"}

\* the configured listeners of transport t on port p
ListenersOn(t, p) ==
    {listeners[i] : i \in {j \in 1..Len(listeners) :
                              listeners[j].Protocol = t /\ listeners[j].Port = p}}

\* C11: the lookup for an event returns the configured listener whose
\* transport and port are those of the event's local address, whatever the
\* IP, and no listener when none has that transport on that port.
C11_LookupByTransportAndPort ==
    IsEvent
    => IF ListenersOn(muxLast.net, muxLast.Port) = {}
       THEN muxLast.l = NoListener
       ELSE muxLast.l \in ListenersOn(muxLast.net, muxLast.Port)

\* C12: with a TCP and a UDP listener on one port, the table built at
\* startup holds both, and an event on that port is given to the listener
\* and to the handler of its own transport.
C12_SharedPortDispatch ==
    \A p \in BindPorts :
        (muxLast.kind # "new" /\ ListenersOn("tcp", p) # {} /\ ListenersOn("udp", p) # {})
        => /\ ListenersOn("tcp", p) \cup ListenersOn("udp", p)
                \subseteq {listenerMap[k] : k \in DOMAIN listenerMap}
           /\ (IsEvent /\ muxLast.Port = p)
              => /\ muxLast.l.Protocol = muxLast.net
                 /\ muxLast.net = "tcp" => muxLast.handler \in {"connectBackend", "handleTCP"}
                 /\ muxLast.net = "udp" => muxLast.handler = "handleUDP"

\* C13: an open or data event whose local address matches no listener (none
\* of its transport on its port) closes the connection and does nothing
\* else: no context is attached, no dial started, no UDP handling entered.
C13_UnmatchedEventClosed ==
    (IsEvent /\ ListenersOn(muxLast.net, muxLast.Port) = {})
    => /\ muxLast.action = "Close"
       /\ muxLast.handler \notin {"connectBackend", "handleUDP"}
       /\ muxLast.kind = "open"
          => \A c \in Conns : cCtx[c] = NilCtx /\ dial[c].pc = "none"

\* ------------------------------------------------ TCP dial properties
\* C14: a connection whose selection or dial failed has had no byte written
\* to its client, one selection and one dial at most, and is closed in the
\* end.
C14_FailedDialClosesClient ==
    /\ [](\A c \in Conns :
            dial[c].failed
            => /\ dial[c].sel <= 1 /\ dial[c].dials <= 1
               /\ \A i \in 1..Len(clientLog[c]) : clientLog[c][i].act # "write")
    /\ \A c \in Conns : dial[c].failed ~> cState[c] = "released"

\* a refused dial, with a byte of the client buffered, and the connection
\* closed by the queued close
C14_Witness ==
    \E c \in Conns :
        /\ dial[c].failed /\ dial[c].dials = 1 /\ cState[c] = "released"
        /\ received[c] # <<>> /\ ctx[c].buffer = received[c]
        /\ asyncQ[c] = <<>> /\ ~closeReq[c] /\ dial[c].pc = "done"

\* C15: a server without a port is dialed at the port of the accepting
\* listener, a server with a port at its own.
C15_BareHostGetsListenerPort ==
    \A c \in Conns :
        dial[c].target # NoServer
        => /\ dial[c].addr.host = dial[c].target
           /\ dial[c].target = "s3" => dial[c].addr.port = lAddr.Port
           /\ dial[c].target = "s1" => dial[c].addr.port = 9001
           /\ dial[c].target = "s2" => dial[c].addr.port = 9002

\* the bare host of a pool dialed on the second port of the range
C15_Witness ==
    \E c \in Conns :
        /\ dial[c].target = "s3" /\ lAddr.Port = 3001
        /\ dial[c].addr = [host |-> "s3", port |-> 3001]
        /\ sock[c].state = "open"

\* ------------------------------------------------ encoder properties
IsIPv4(ip) == Len(ip) = 4 \/ (Len(ip) = 16 /\ ip = V4InV6(SubSeq(ip, 13, 16)))
IsIPv6(ip) == Len(ip) = 16 /\ ~IsIPv4(ip)
\* the last four bytes of the IPv4 address in either form
V4Bytes(ip) == SubSeq(ip, Len(ip) - 3, Len(ip))
BothTCPorUDP == pxSrc.net \in {"tcp", "udp"} /\ pxDst.net \in {"tcp", "udp"}

\* C19: a header the encoder writes is the signature, 0x21, the
\* family|protocol byte (0x11, 0x12, 0x21, 0x22), the big-endian length of
\* the address block (12 or 36), the two addresses and the two big-endian
\* ports: 28 bytes for IPv4 and 52 for IPv6; and it is written for every
\* pair of TCP or UDP addresses of one family.
C19_HeaderLayout ==
    pxOut.called
    => LET h == pxOut.written
           v4 == IsIPv4(pxSrc.IP) /\ IsIPv4(pxDst.IP)
           v6 == IsIPv6(pxSrc.IP) /\ IsIPv6(pxDst.IP)
           n == IF v4 THEN 4 ELSE 16
       IN /\ (BothTCPorUDP /\ (v4 \/ v6)) => ~pxOut.err
          /\ ~pxOut.err
             => /\ v4 \/ v6
                /\ Len(h) = IF v4 THEN 28 ELSE 52
                /\ SubSeq(h, 1, 12) = <<13, 10, 13, 10, 0, 13, 10, 81, 85, 73, 84, 10>>
                /\ h[13] = 33
                /\ h[14] \in IF v4 THEN {17, 18} ELSE {33, 34}
                /\ (pxSrc.net = "tcp" /\ pxDst.net = "tcp") => h[14] \in {17, 33}
                /\ (pxSrc.net = "udp" /\ pxDst.net = "udp") => h[14] \in {18, 34}
                /\ h[15] = 0 /\ h[16] = IF v4 THEN 12 ELSE 36
                /\ SubSeq(h, 17, 16 + n) = IF v4 THEN V4Bytes(pxSrc.IP) ELSE pxSrc.IP
                /\ SubSeq(h, 17 + n, 16 + 2 * n) = IF v4 THEN V4Bytes(pxDst.IP) ELSE pxDst.IP
                /\ h[17 + 2 * n] * 256 + h[18 + 2 * n] = pxSrc.Port
                /\ h[19 + 2 * n] * 256 + h[20 + 2 * n] = pxDst.Port
                /\ \A i \in 1..Len(h) : h[i] \in 0..255

\* the IPv4/UDP header of a client given in 16-byte form
C19_Witness ==
    /\ pxOut.called /\ ~pxOut.err /\ Len(pxOut.written) = 28
    /\ pxSrc.net = "udp" /\ pxDst.net = "udp"
    /\ pxSrc.IP = V4InV6(IPv4Client) /\ pxDst.IP = IPv4Loopback
    /\ pxSrc.Port = 8080 /\ pxDst.Port = 443
    /\ pxOut.written[14] = 18
    /\ SubSeq(pxOut.written, 25, 28) = <<31, 144, 1, 187>>

\* ------------------------------------------------ UDP and the PROXY header
\* C16: a datagram for a pool server without a port is never dropped for
\* that reason: its session goes to the server on the listener's port.
C16_BareHostPortPreserved ==
    /\ udpLast.op # "drop-resolve"
    /\ \A s \in 1..Len(usock) :
           (usock[s].state = "open" /\ ServerPort(usock[s].backend) = NoPort)
           => usock[s].addr = [host |-> usock[s].backend, port |-> lAddr.Port]

\* the client and the listener are of one address family
SameFamily == IsIPv4(IPv4Client) <=> IsIPv4(lAddr.IP)

\* C17: on the backend socket of a session of a send_proxy_v2 pool (whose
\* header can be encoded) the first payload is the header and every later
\* payload is a datagram; no datagram is written before the header.
C17_HeaderFirstAndOnce ==
    (sendProxyV2 /\ SameFamily)
    => \A s \in 1..Len(usock) :
           (usock[s].state = "open" /\ usock[s].written # <<>>)
           => /\ usock[s].written[1] = "PROXY"
              /\ \A i \in 2..Len(usock[s].written) : usock[s].written[i] = "DGRAM"

\* C20: the encoder returns an error and writes nothing for a pair of
\* addresses of different families or with an address that is neither TCP
\* nor UDP; when that happens in handleUDP the session stays in the table,
\* no header is written on its socket and the datagram is forwarded.
C20_EncoderFailureKeepsSession ==
    /\ [](pxOut.called
           => (((~BothTCPorUDP) \/ (IsIPv4(pxSrc.IP) # IsIPv4(pxDst.IP)))
               => (pxOut.err /\ pxOut.written = <<>>)))
    /\ []((sendProxyV2 /\ ~SameFamily)
           => \A s \in 1..Len(usock) : \A i \in 1..Len(usock[s].written) :
                  usock[s].written[i] = "DGRAM")
    /\ [][\A w \in Workers :
              (uw[w].pc = "header" /\ uw'[w].pc # "header" /\ pxOut'.err)
              => /\ uw'[w].pc = "write"
                 /\ uw'[w].conn = uw[w].conn
                 /\ usock' = usock
                 /\ udpSessions' = udpSessions]_vars
    /\ [][\A w \in Workers :
              (uw[w].pc = "write" /\ uw'[w].pc = "idle" /\ usock[uw[w].conn].state = "open")
              => /\ usock'[uw[w].conn].written = Append(usock[uw[w].conn].written, "DGRAM")
                 /\ udpLast'.op = "forward" /\ udpLast'.sock = uw[w].conn]_vars

\* a session of a send_proxy_v2 pool on an IPv6 listener, created by an IPv4
\* client: the encoder failed, the session is in the table and its socket
\* has the datagram and no header
C20_Witness ==
    /\ sendProxyV2 /\ ~SameFamily
    /\ pxOut.called /\ pxOut.err /\ pxOut.written = <<>>
    /\ udpLast.op = "forward" /\ udpLast.sockOpen
    /\ \E k \in Clients :
           /\ udpSessions[k] = udpLast.sock
           /\ usock[udpLast.sock].state = "open"
           /\ usock[udpLast.sock].written = <<"DGRAM">>

\* C18: on the backend connection of a pool with send_proxy_v2 the first
\* bytes written are a PROXY-v2 header, before any byte of the client.
C18_TCPHeaderFirst ==
    \A c \in Conns :
        (sendProxyV2 /\ sock[c].written # <<>>)
        => /\ Len(sock[c].written) >= 28
           /\ SubSeq(sock[c].written, 1, 12) = <<13, 10, 13, 10, 0, 13, 10, 81, 85, 73, 84, 10>>

\* ------------------------------------------------------ health checker
\* C21: an updateStatus call that has returned invoked the callback once if
\* the server had no entry or its entry differed from the probe result, and
\* not at all otherwise; before it returns the callback was not invoked
\* more than that.
C21_CallbackOncePerChange ==
    \A s \in Names :
        /\ probes[s].pc = "done"
           => probes[s].cb = IF (~probes[s].exists) \/ probes[s].old # probes[s].healthy
                             THEN 1 ELSE 0
        /\ probes[s].pc \in {"none", "probe", "update", "callback"} => probes[s].cb = 0

\* a second round in which s1 changed and s2 did not
C21_Witness ==
    /\ hcRounds = 2
    /\ probes["s2"].pc = "done" /\ probes["s2"].exists /\ probes["s2"].cb = 0
    /\ probes["s1"].pc = "done" /\ probes["s1"].exists /\ probes["s1"].cb = 1
    /\ probes["s1"].old # probes["s1"].healthy

\* C22: while no updateStatus is in progress the balancer's flag of every
\* probed server is the checker's entry, and a Next call made since the
\* last update returned no server recorded as unhealthy.
C22_BalancerFollowsChecker ==
    hcMu = NoServer
    => /\ \A s \in DOMAIN chkStatus : MapGetBool(status, s) = chkStatus[s]
       /\ \A s \in DOMAIN chkStatus : (s \in Range(healthy)) = chkStatus[s]
       /\ (lbLast.op = "next" /\ ~lbLast.err)
          => (lbLast.server \in DOMAIN chkStatus => chkStatus[lbLast.server])

\* s1 is recorded as unhealthy and a later Next call returned s2
C22_Witness ==
    /\ hcMu = NoServer
    /\ "s1" \in DOMAIN chkStatus /\ ~chkStatus["s1"]
    /\ lbLast.op = "next" /\ lbLast.server = "s2"

\* ------------------------------------------------- port-range expansion
\* a bind string "host:start-end" with decimal start and end, and
\* "host:port" with a decimal port
DigitString(str) == str # <<>> /\ \A i \in 1..Len(str) : str[i] \in {"0", "1", "2", "3", "4", "5", "6", "7", "8", "9"}
HostString(str) == \A i \in 1..Len(str) : str[i] \notin {":", "-"}
IsRangeBind(b, host, lo, hi) ==
    /\ b = host \o <<":">> \o lo \o <<"-">> \o hi
    /\ HostString(host) /\ DigitString(lo) /\ DigitString(hi)
IsSingleBind(b, host, port) ==
    /\ b = host \o <<":">> \o port
    /\ HostString(host) /\ DigitString(port)
Prefixes(b) == {SubSeq(b, 1, n) : n \in 0..Len(b)}
Pieces(b) == {SubSeq(b, i, j) : i \in 1..(Len(b) + 1), j \in 0..Len(b)}
\* the decimal number a string denotes, without leading zeros past the first digit
NumeralOf(ch) ==
    CASE ch = "0" -> 0 [] ch = "1" -> 1 [] ch = "2" -> 2 [] ch = "3" -> 3 [] ch = "4" -> 4
      [] ch = "5" -> 5 [] ch = "6" -> 6 [] ch = "7" -> 7 [] ch = "8" -> 8 [] ch = "9" -> 9
RECURSIVE Denotes(_, _)
Denotes(str, n) ==
    IF str = <<>> THEN n = 0
    ELSE /\ DigitString(str)
         /\ n % 10 = NumeralOf(str[Len(str)])
         /\ Denotes(SubSeq(str, 1, Len(str) - 1), n \div 10)

\* C25: "host:start-end" gives one descriptor per port of [start, end], in
\* increasing order, named <name>-<p>, bound to host:p, with Port p and the
\* listener's protocol and default backend; "host:port" gives one
\* descriptor with the listener's name.
C25_RangeExpansion ==
    cfgPos = 1
    => LET l == cfgListeners[1]
       IN /\ \A host \in Prefixes(l.Bind), lo, hi \in Pieces(l.Bind) :
                 IsRangeBind(l.Bind, host, lo, hi)
                 => \E start, end \in 0..222 :
                        /\ Denotes(lo, start) /\ Denotes(hi, end)
                        /\ Len(listeners) = IF end >= start THEN end - start + 1 ELSE 0
                        /\ \A i \in 1..Len(listeners) :
                               /\ listeners[i].Port = start + i - 1
                               /\ \E d \in Pieces(listeners[i].Name) :
                                      /\ Denotes(d, listeners[i].Port)
                                      /\ listeners[i].Name = l.Name \o <<"-">> \o d
                                      /\ listeners[i].Addr = host \o <<":">> \o d
                               /\ listeners[i].Protocol = l.Protocol
                               /\ listeners[i].DefaultBackend = l.DefaultBackend
          /\ \A host \in Prefixes(l.Bind), port \in Pieces(l.Bind) :
                 IsSingleBind(l.Bind, host, port)
                 => /\ Len(listeners) = 1
                    /\ listeners[1].Name = l.Name
                    /\ listeners[1].Addr = l.Bind
                    /\ Denotes(port, listeners[1].Port)
                    /\ listeners[1].Protocol = l.Protocol
                    /\ listeners[1].DefaultBackend = l.DefaultBackend

\* "h:1-2" has become n-1 on h:1 and n-2 on h:2
C25_Witness ==
    /\ cfgPos = 1
    /\ cfgListeners[1].Bind = <<"h", ":", "1", "-", "2">>
    /\ Len(listeners) = 2
    /\ listeners[1].Name = <<"n", "-", "1">> /\ listeners[1].Addr = <<"h", ":", "1">>
    /\ listeners[2].Name = <<"n", "-", "2">> /\ listeners[2].Addr = <<"h", ":", "2">>
    /\ listeners[2].Port = 2

\* C27: once the closed flag of a connection's context is set, nothing more
\* is written to its backend socket.
C27_NoBackendWriteAfterClosed ==
    [][\A c \in Conns : ctx[c].closed => sock'[c].written = sock[c].written]_vars

\* C28: when the context is closed before the dial task publishes, the task
\* closes the socket it dialed and ends: the socket is never stored,
\* connected is never set, nothing is written to the socket and no read
\* loop runs; all of that stays so once the task has ended.
C28_ClosedBeforePublish ==
    [][\A c \in Conns :
          LET dropped == ctx[c].closed /\ ctx[c].BackendConn = "nil"
          IN /\ (dropped /\ dial[c].pc \in {"select", "dial", "publish", "done"})
                  => /\ ctx'[c].BackendConn = "nil"
                     /\ ~ctx'[c].connected
                     /\ sock'[c].written = <<>>
                     /\ dial'[c].reads = 0
                     /\ dial'[c].pc \in {"select", "dial", "publish", "done"}
             /\ (dropped /\ dial[c].pc = "publish" /\ dial'[c].pc # "publish")
                  => /\ dial'[c].pc = "done"
                     /\ sock'[c].state = "closed"
                     /\ ctx'[c].buffer = ctx[c].buffer
                     /\ asyncQ'[c] = asyncQ[c]]_vars

\* the client sent bytes and closed during the dial; the dial succeeded and
\* the task dropped the socket
C28_Witness ==
    \E c \in Conns :
        /\ ctx[c].closed /\ cState[c] = "released"
        /\ received[c] # <<>>
        /\ dial[c].pc = "done" /\ dial[c].dials = 1 /\ ~dial[c].failed
        /\ sock[c].state = "closed" /\ sock[c].written = <<>>
        /\ ctx[c].BackendConn = "nil" /\ ~ctx[c].connected

\* C29: whenever connected is set the buffer has been flushed and emptied.
C29_ConnectedMeansFlushed ==
    \A c \in Conns : ctx[c].connected => ctx[c].buffer = <<>>

\* C30: a data event on a connection that is not connected appends exactly
\* its bytes to the end of the buffer and writes nothing; on a connected one
\* it hands exactly its bytes to the backend socket, which takes all of them
\* or fails after a prefix (the connection is then closed), and the buffer
\* is left as it was.
C30_BufferOrWrite ==
    [][\A c \in Conns :
          received'[c] # received[c]
          => LET data == SubSeq(received'[c], Len(received[c]) + 1, Len(received'[c]))
             IN IF ctx[c].connected
                THEN /\ ctx'[c].buffer = ctx[c].buffer
                     /\ \/ sock'[c].written = sock[c].written \o data
                        \/ /\ \E k \in 0..(Len(data) - 1) :
                                  sock'[c].written = sock[c].written \o SubSeq(data, 1, k)
                           /\ cState'[c] = "released"
                ELSE /\ ctx'[c].buffer = ctx[c].buffer \o data
                     /\ sock' = sock]_vars

\* byte 1 came during the dial and was flushed by it; byte 2 came after the
\* dial was published and went to the socket, which took nothing of it
C30_Witness ==
    \E c \in Conns :
        /\ ctx[c].connected /\ ctx[c].bufferNil
        /\ received[c] = <<1, 2>> /\ sock[c].written = <<1>>

\* C26: an UpdateStatus call that repeats the call before it leaves the
\* status map, the healthy list, the round-robin counter and the in-flight
\* counts as they were, and with them the outcomes of the next Next call,
\* for each of the strategies.
C26_UpdateStatusIdempotent ==
    [][(lbLast'.op = "update" /\ lbLast'.again)
        => /\ status' = status
           /\ healthy' = healthy
           /\ current' = current
           /\ conns' = conns
           /\ RoundRobin_Next' = RoundRobin_Next
           /\ Random_Next' = Random_Next
           /\ LeastConn_Next' = LeastConn_Next]_vars

\* the second server of a pool of three was reported down twice in a row
C26_Witness ==
    /\ lbLast.op = "update" /\ lbLast.again
    /\ Len(allServers) = 3 /\ lbLast.server = allServers[2] /\ ~lbLast.up
    /\ healthy = <<allServers[1], allServers[3]>>

\* the run has expanded its configuration and one of the addresses handed
\* to the engine cannot be bound
BindFails ==
    /\ cfgPos = Len(cfgListeners)
    /\ \E i \in 1..Len(listeners) : listeners[i].Addr \in unbindable

\* C23 as stated: with an address that cannot be bound the engine never
\* runs, no connection is served and run never reports success.
C23_BindFailureFailsRun ==
    BindFails
    => /\ engState \in {"new", "failed"}
       /\ \A c \in Conns : cState[c] = "new"
       /\ runRet # "nil"

\* C23, amended: with an address that cannot be bound Engine.Start returns
\* an error, the engine never runs and no connection is served; run returns
\* that error, or nil when the cancellation signal was raised before run
\* took the error.
C23_BindFailureFailsEngine ==
    BindFails
    => /\ engState \in {"new", "failed"}
       /\ errCh = (IF engState = "failed" THEN "err" ELSE "empty")
       /\ \A c \in Conns : cState[c] = "new"
       /\ runRet = "nil" => ctxDone
       /\ runRet = "error" => engState = "failed"
       /\ (exited /\ ~ctxDone) => runRet = "error"

\* of two listeners one could bind and one could not: the engine failed,
\* run returned the error and the process exited without having served
C23_Witness ==
    /\ BindFails
    /\ Len(listeners) = 2
    /\ \E i \in 1..2 : listeners[i].Addr \notin unbindable
    /\ engState = "failed" /\ runRet = "error" /\ exited /\ ~ctxDone
    /\ \A c \in Conns : cState[c] = "new"

\* C24: once the cancellation signal is raised no connection is accepted
\* and no dial task stores the socket it dialed.
C24_CancelStopsEngine ==
    [][ctxDone
        => \A c \in Conns :
               /\ cState[c] = "new" => cState'[c] = "new"
               /\ ctx[c].BackendConn = "nil" => ctx'[c].BackendConn = "nil"]_vars

\* C31: a close of the client connection is requested only by the event
\* loop running the close callback of safeClose, and only while the context
\* attached to the connection is the one the callback captured.
C31_CloseOnlyThroughSafeClose ==
    [][\A c \in Conns :
          (~closeReq[c] /\ closeReq'[c])
          => /\ asyncQ[c] # <<>>
             /\ Head(asyncQ[c]).kind = "close"
             /\ asyncQ'[c] = Tail(asyncQ[c])
             /\ cCtx[c] = c]_vars

\* C32: the chunks the read loop scheduled reach the event loop in the order
\* they were read, each once: the i-th callback run carries the i-th chunk,
\* the callbacks still queued carry the following ones, and a chunk is
\* written to the client only when every chunk before it was written.
C32_BackendToClientInOrder ==
    \A c \in Conns :
        LET log == clientLog[c]
            queued == SelectSeq(asyncQ[c], LAMBDA cb : cb.kind = "write")
        IN /\ \A i \in 1..Len(log) :
                  /\ log[i].data = i
                  /\ log[i].act = "write" => \A j \in 1..(i - 1) : log[j].act = "write"
           /\ \A i \in 1..Len(queued) : queued[i].data = Len(log) + i

\* two chunks were read and both were written to the client, in order
C32_Witness ==
    \E c \in Conns :
        /\ Len(clientLog[c]) = 2
        /\ clientLog[c][1].act = "write" /\ clientLog[c][1].data = 1
        /\ clientLog[c][2].act = "write" /\ clientLog[c][2].data = 2

\* the connection is ending: its context is closed or its reader has left
\* the copy loop
Ending(c) == ctx[c].closed \/ dial[c].pc \in {"finish", "setclosed", "done"}

\* C33: a connection that is released and whose dial task has ended holds
\* no open backend socket, and an open socket of a connection that is
\* ending is closed in the end.
C33_DialedSocketClosed ==
    /\ [](\A c \in Conns :
            (cState[c] = "released" /\ dial[c].pc \in {"none", "done"})
            => sock[c].state # "open")
    /\ \A c \in Conns :
           (sock[c].state = "open" /\ Ending(c)) ~> sock[c].state = "closed"

\* the backend ended the stream after one chunk; the queued close ran and
\* OnClose closed the socket
C33_Witness ==
    \E c \in Conns :
        /\ dial[c].pc = "done" /\ dial[c].reads = 1 /\ ~dial[c].failed
        /\ ctx[c].connected /\ ctx[c].closed
        /\ cState[c] = "released" /\ asyncQ[c] = <<>> /\ ~closeReq[c]
        /\ sock[c].state = "closed"

\* C34: for every strategy the healthy list is the configured list filtered
\* by the status map, in order; the configured list never changes; an
\* UpdateStatus for a name outside the pool leaves the healthy list alone.
C34_HealthyIsFilteredList ==
    /\ [](healthy = HealthyNow)
    /\ [][allServers' = allServers]_vars
    /\ [][(lbLast'.op = "update" /\ lbLast'.server \notin Range(allServers))
            => healthy' = healthy]_vars

\* the first of two servers is down and the status of a name outside the
\* pool has just been updated
C34_Witness ==
    /\ lbLast.op = "update" /\ lbLast.server \notin Range(allServers)
    /\ Len(allServers) = 2 /\ allServers[1] # allServers[2]
    /\ healthy = <<allServers[2]>>

\* C37: the round-robin counter moves only in a Next call that finds a
\* healthy server, by one; that call, the n-th of its kind, returns the
\* element (n - 1) mod len of the healthy list of that moment; no other
\* call, UpdateStatus included, changes the counter.
C37_CounterNeverReset ==
    [][IF Strategy = "roundrobin" /\ nextCalls' = nextCalls + 1 /\ ~lbLast'.err
       THEN /\ current' = current + 1
            /\ healthy # <<>>
            /\ lbLast'.idx = (current' - 1) % Len(healthy)
            /\ lbLast'.server = healthy[lbLast'.idx + 1]
       ELSE current' = current]_vars

\* after two calls one of three servers went down; the third and the fourth
\* call went on from the counter: elements 0 and 1 of the two left
C37_Witness ==
    /\ Strategy = "roundrobin" /\ statusTouched
    /\ Len(allServers) = 3 /\ Len(healthy) = 2
    /\ current = 4 /\ lbLast.op = "next" /\ lbLast.idx = 1

Drops == {"drop-next", "drop-resolve", "drop-dial"}

\* C39: handleUDP for a client without a session either drops the datagram,
\* when no server is healthy, the target does not resolve or the dial fails,
\* and then stores no session, makes no socket and starts no reader, or it
\* stores a new open socket with a running reader; and a datagram of a
\* client that has no entry in the table goes to session creation.
C39_FailedSessionLeavesNothing ==
    [][\A w \in Workers :
          /\ (uw[w].pc = "create" /\ uw'[w].pc # "create" /\ lDefaultBackend # "")
               => \/ /\ uw'[w] = IdleWorker
                     /\ udpLast'.op \in Drops
                     /\ udpLast'.op = "drop-next" <=> healthy = <<>>
                     /\ udpSessions' = udpSessions
                     /\ usock' = usock
                  \/ /\ uw'[w].pc \in {"header", "write"}
                     /\ Len(usock') = Len(usock) + 1
                     /\ uw'[w].conn = Len(usock')
                     /\ udpSessions'[uw[w].client] = Len(usock')
                     /\ usock'[Len(usock')].state = "open"
                     /\ usock'[Len(usock')].reader = "run"
          /\ (uw[w].pc = "idle" /\ uw'[w].pc # "idle")
               => (uw'[w].pc = "create" <=> udpSessions[uw'[w].client] = NoConn)]_vars

\* the dial for the first datagram of a client failed: the datagram is
\* gone, no session and no socket exist, and the second datagram of that
\* client is on its way to a new selection
C39_Witness ==
    /\ udpLast.op = "drop-dial"
    /\ dgramCount = 2 /\ usock = <<>>
    /\ \A k \in Clients : udpSessions[k] = NoConn
    /\ \E w \in Workers :
           /\ uw[w].pc = "create"
           /\ \A v \in Workers \ {w} : uw[v].pc = "idle"

\* C40: a datagram that handleUDP forwards is written to a socket that is
\* still open.
C40_NoForwardOnClosedSocket ==
    udpLast.op = "forward" => udpLast.sockOpen

\* the counter values held by the round-robin calls that have returned or
\* are between the add and the index
CounterValues ==
    {e.next : e \in {r \in nxLog : ~r.err}}
        \cup {nx[g].next : g \in {o \in Goroutines : nx[o].pc = "index"}}
CounterHolders ==
    Cardinality({r \in nxLog : ~r.err})
        + Cardinality({o \in Goroutines : nx[o].pc = "index"})

\* C35: with round-robin, under every interleaving of Next calls with each
\* other and with UpdateStatus, a call fails only on an empty healthy list,
\* never panics, and returns the element at its index of the healthy list,
\* which is the list it saw when it took the lock; the calls hold the
\* counter values 1..current, each once, so that on an untouched list the
\* calls that returned took the same servers as calls made one by one.
C35_ConcurrentNextRaceFree ==
    Strategy = "roundrobin"
    => /\ \A e \in nxLog :
              /\ ~e.panic /\ e.stable
              /\ e.err => e.server = NoServer
              /\ (~e.err /\ ~statusTouched)
                   => e.server = allServers[((e.next - 1) % Len(allServers)) + 1]
       /\ \A g \in Goroutines :
              nx[g].pc # "idle" => nx[g].seen = healthy
       /\ CounterValues = 1..current
       /\ CounterHolders = current

\* two goroutines are between the add and the index at the same time, the
\* one that took the lock first holding the later counter value, after two
\* calls have returned from an untouched list of three
C35_Witness ==
    /\ Strategy = "roundrobin" /\ ~statusTouched /\ Len(allServers) = 3
    /\ Cardinality(nxLog) = 2
    /\ nx["g1"].pc = "index" /\ nx["g2"].pc = "index"
    /\ nx["g1"].next = 4 /\ nx["g2"].next = 3

\* C36: no two goroutines are inside the generator of the random strategy
\* at the same time, and no Next call panics.
C36_NextIsPureReader ==
    /\ Cardinality({g \in Goroutines : nx[g].pc = "rnd"}) <= 1
    /\ \A e \in nxLog : ~e.panic

====
